---- MODULE Spec2Model ----
(***************************************************************************)
(* Model of the JVM symbol resolver of scala-gazelle (package jvm,          *)
(* resolve.go): ResolveJvmSymbols with its lookup passes, its tie-break     *)
(* policy and the forced-transitive-dependency expansion.                   *)
(*                                                                          *)
(* A symbol is the sequence of its dot-separated segments, so that          *)
(* "_root_.p.Q._" is <<"_root_", "p", "Q", "_">>.  A label is its string.   *)
(*                                                                          *)
(* The rule index, the override table and the package mapping are read-only *)
(* while ResolveJvmSymbols runs.  Each holds the entries fixed so far: an   *)
(* entry that Init leaves open is fixed, to any value of its answer set,    *)
(* the first time the resolver reads it, and never changes afterwards.      *)
(* This yields exactly the runs over every total table.                     *)
(***************************************************************************)
EXTENDS Integers, Sequences, FiniteSets, TLC

VARIABLES
    from,                 \* label of the rule whose dependencies are resolved
    usedSymbols,          \* the symbols to resolve
    overrides,            \* resolve directives: symbol -> [exists, label]
    ruleIndex,            \* rule index: symbol -> sequence of labels
    PackageMapping,       \* MavenInstallData.PackageMapping: symbol -> [exists, labels]
    ArtifactLabels,       \* MavenInstallData.ArtifactLabels
    excludedArtifacts,    \* JvmConfig.excludedArtifacts
    ForcedTransitiveDeps, \* JvmConfig.ForcedTransitiveDeps: label -> sequence of labels
    pc,                   \* position in ResolveJvmSymbols
    remaining,            \* symbols the iterator has not yet delivered
    deps,                 \* the result set under construction
    originalSymbol,       \* loop variables of the current iteration
    symbol,
    labels,
    mavenLabels,
    packageExists,
    branch,               \* the arm of the tie-break taken for the current symbol
    accepted,             \* the argument of the addDep call of the current symbol
    toCheck,              \* forcedTransitiveDepsForDep: the stack
    forcedDeps,           \* forcedTransitiveDepsForDep: the set under construction
    fatal,                \* the log.Fatalf call that ended the run, if any
    contributed           \* per resolved symbol, what it added to deps

\* The configuration of the jvm language (config.go) and the maven install
\* data (ParseMavenInstall).  Sets and maps that the program shares by
\* pointer live in a heap: a sequence whose index is the reference.
VARIABLES
    jvmConfigs,           \* c.Exts["jvm"]: package -> JvmConfig, fields hold references
    treesets,             \* heap of *treeset.Set values held as excludedArtifacts
    forcedDepsMaps,       \* heap of map[string][]string values held as ForcedTransitiveDeps
    installs,             \* heap of MavenInstallData values
    mavenInstallCache,    \* path -> reference into installs
    lockFiles,            \* the lock-files on disk: path -> contents
    configureCalls,       \* the packages Configure was called for, in order
    parseCalls,           \* the calls of ParseMavenInstall, in order
    configFatal           \* the log.Fatalf call that ended configuration, if any

\* jarToLabel applied to one coordinate.
VARIABLES
    jarOrJarPath,         \* the argument
    mavenLabelPrefix,     \* the prefix
    jarLabel              \* the label returned, <<>> before the call

\* The Scala source parser (package scala): the import reader, the fallback
\* line scanner and Parse.  A string is the sequence of its characters, a
\* syntax-tree node is a record of its type, its text and its named children.
VARIABLES
    importNode,           \* readImportDeclaration: the node read
    imports,              \* readImportDeclaration: the set returned
    importStatus,         \* "none" before the call, then "returned" or "exit"
    sourceCode,           \* the source text handed to the scanner or to Parse
    definedSymbols,       \* scanForDefinedSymbols: the set returned
    scanStatus,           \* "none" before the call, then "returned"
    tree,                 \* the root node tree-sitter produces for sourceCode
    parser,               \* the treeSitterParser instance: its flags and seenNodes
    parseLog              \* the Parse calls so far, each with its outcome

\* The content-addressed parse cache (package parse): CachingParser.
VARIABLES
    sourceFiles,          \* the source files on disk: path -> text
    parsingCache,         \* cp.parsingCache.Cache: hash -> ParseResult
    parseFileLog          \* the ParseFile calls so far, each with its outcome

resolverVars == <<from, usedSymbols, overrides, ruleIndex, PackageMapping, ArtifactLabels,
          excludedArtifacts, ForcedTransitiveDeps, pc, remaining, deps,
          originalSymbol, symbol, labels, mavenLabels, packageExists, branch,
          accepted, toCheck, forcedDeps, fatal, contributed>>

configVars == <<jvmConfigs, treesets, forcedDepsMaps, installs, mavenInstallCache,
                lockFiles, configureCalls, parseCalls, configFatal>>

labelVars == <<jarOrJarPath, mavenLabelPrefix, jarLabel>>

importVars == <<importNode, imports, importStatus>>

scanVars == <<definedSymbols, scanStatus>>

parseVars == <<tree, parser, parseLog>>

cacheVars == <<sourceFiles, parsingCache, parseFileLog>>

parserVars == <<importVars, sourceCode, scanVars, parseVars, cacheVars>>

\* What ResolveJvmSymbols neither reads nor writes.
outside == <<configVars, labelVars, parserVars>>

vars == <<resolverVars, configVars, labelVars, parserVars>>

inputs == <<from, usedSymbols, ArtifactLabels, excludedArtifacts, ForcedTransitiveDeps>>

tables == <<overrides, ruleIndex, PackageMapping>>

loopVars == <<originalSymbol, symbol, labels, mavenLabels, packageExists>>

(***************************************************************************)
(* Bounds of the model.                                                     *)
(***************************************************************************)
MaxMatches == 2     \* longest answer of the rule index
MaxDepList == 2     \* longest value of a ForcedTransitiveDeps entry
MaxUsed == 2        \* most symbols in usedSymbols
MaxStack == 4       \* longest stack of forcedTransitiveDepsForDep that is followed

(***************************************************************************)
(* Labels and symbols the inputs are drawn from.                            *)
(***************************************************************************)
LibLabel == "//m:lib"
OtherLabel == "//o:lib"
MavenA == "@maven//:a"
MavenB == "@maven//:b"
MavenC == "@maven//:c"
NoLabel == ""

MavenLabels == {MavenA, MavenB}
Labels == {LibLabel, OtherLabel, MavenA, MavenB}

SeqsUpTo(S, n) == UNION {[1..k -> S] : k \in 0..n}

Range(s) == {s[i] : i \in 1..Len(s)}

\* Table t with key k fixed to v unless t already holds k.
Fix(t, k, v) == IF k \in DOMAIN t THEN t ELSE t @@ (k :> v)

\* The answers an open or fixed entry can give.
Answers(t, k, all) == IF k \in DOMAIN t THEN {t[k]} ELSE all

NoOverride == [exists |-> FALSE, label |-> NoLabel]
NoPackage == [exists |-> FALSE, labels |-> {}]

OverrideAnswers == {NoOverride} \cup {[exists |-> TRUE, label |-> l] : l \in {OtherLabel, MavenA}}
IndexAnswers == SeqsUpTo({LibLabel, OtherLabel, MavenA}, MaxMatches)
PackageAnswers == {NoPackage} \cup {[exists |-> TRUE, labels |-> S] : S \in SUBSET MavenLabels \ {{}}}

(***************************************************************************)
(* strings.ToLower, on the segments the model uses.                         *)
(***************************************************************************)
ToLower(name) ==
    CASE name = "Q" -> "q"
      [] name = "R" -> "r"
      [] name = "qR" -> "qr"
      [] OTHER -> name

isSymbol(name) == name /= ToLower(name)

\* strings.TrimPrefix(symbol, "_root_.")
TrimRootPrefix(s) == IF Len(s) > 1 /\ s[1] = "_root_" THEN Tail(s) ELSE s

\* strings.TrimSuffix(symbol, "._")
TrimWildcardSuffix(s) == IF Len(s) > 1 /\ s[Len(s)] = "_" THEN SubSeq(s, 1, Len(s) - 1) ELSE s

Normalize(s) == TrimWildcardSuffix(TrimRootPrefix(s))

\* strings.Contains(symbol, ".")
ContainsDot(s) == Len(s) > 1

\* symbol[lastDotIndex+1:]
LastSegment(s) == s[Len(s)]

\* symbol[:lastDotIndex]
Peel(s) == SubSeq(s, 1, Len(s) - 1)

(***************************************************************************)
(* lookUpSymbol: an override, if there is one, else the rule index.         *)
(* ov is the answer of resolve.FindRuleWithOverride, ix the answer of       *)
(* FindRulesByImportWithConfig.                                             *)
(***************************************************************************)
lookUpSymbol(ov, ix) == IF ov.exists THEN <<ov.label>> ELSE ix

\* Variant: the last segment is peeled without asking isSymbol.
PeelsSegment_NoSymbolCheck(skipIsSymbolCheck, sym, pkgExists) ==
    /\ ~pkgExists
    /\ ContainsDot(sym)

\* The peel decision of runLookupWithFallback.
PeelsSegment(skipIsSymbolCheck, sym, pkgExists) ==
    /\ ~pkgExists
    /\ ContainsDot(sym)
    /\ (skipIsSymbolCheck \/ isSymbol(LastSegment(sym)))

(***************************************************************************)
(* The tie-break of ResolveJvmSymbols, as the arm it takes.                 *)
(***************************************************************************)

\* Variant: several rule-index matches are treated like one, the first.
TieBreakArm_FirstMatchWins(lbls, pkgExists, mvn, excluded) ==
    IF Len(lbls) >= 1 /\ (~pkgExists \/ lbls[1] \in mvn \/ lbls[1] \in excluded)
        THEN "ruleIndex"
    ELSE IF pkgExists THEN "package"
    ELSE "unresolved"

\* Variant: a single rule-index match is taken before the package entry is
\* looked at.
TieBreakArm_IndexBeforePackage(lbls, pkgExists, mvn, excluded) ==
    IF Len(lbls) > 1 THEN "ambiguous"
    ELSE IF Len(lbls) = 1 THEN "ruleIndex"
    ELSE IF pkgExists THEN "package"
    ELSE "unresolved"

TieBreakArm(lbls, pkgExists, mvn, excluded) ==
    IF Len(lbls) > 1 THEN "ambiguous"
    ELSE IF Len(lbls) = 1 /\ (~pkgExists \/ lbls[1] \in mvn \/ lbls[1] \in excluded)
        THEN "ruleIndex"
    ELSE IF pkgExists THEN "package"
    ELSE "unresolved"

\* Variant: the package labels are not filtered by visibility.
visibleLabels_Unfiltered(mvn, artifacts) == mvn

\* mavenLabels.Select(... ArtifactLabels.Contains(value))
visibleLabels(mvn, artifacts) == {l \in mvn : l \in artifacts}

\* Variant: the self-dependency test is missing.
IsSelfDependency_Never(fromLabel, symbolLabel) == FALSE

\* don't add self-dependencies
IsSelfDependency(fromLabel, symbolLabel) == fromLabel = symbolLabel

\* Variant: addDep does not consult excludedArtifacts.
AddsDep_Always(dep, excluded) == TRUE

\* addDep: the dependency is expanded unless it is excluded.
AddsDep(dep, excluded) == dep \notin excluded

\* Variant: the union is assigned without the dependencies found so far.
UnionDeps_Overwrite(d, forced) == forced

\* deps = deps.Union(forcedDeps)
UnionDeps(d, forced) == d \cup forced

\* The forced dependencies pushed for nextDep.
transitiveDeps(forcedDepsMap, nextDep) ==
    IF nextDep \in DOMAIN forcedDepsMap THEN forcedDepsMap[nextDep] ELSE <<>>

\* Variant: a label already in forcedDeps is not pushed again (a cycle guard).
depsToPush_Unseen(transitive, seen) == SelectSeq(transitive, LAMBDA l : l \notin seen)

\* The loop body pushes every forced dependency of nextDep: there is no test
\* against the labels seen so far.
depsToPush(transitive, seen) == transitive

\* Variant: the forced dependencies are added to the set but not pushed, so
\* that only one hop is followed.
appendToCheck_NotPushed(rest, pushed) == rest

\* toCheck = append(toCheck, transitiveDep), for each one
appendToCheck(rest, pushed) == rest \o pushed

NoFatal == [kind |-> "none", from |-> NoLabel, symbol |-> <<>>, candidates |-> {}]

(***************************************************************************)
(* ResolveJvmSymbols, one action per step of its loop body.                 *)
(***************************************************************************)

\* usedSymbolsIter.Next(): the next symbol, normalized; the loop variables
\* are declared afresh in every iteration.
NextSymbol ==
    /\ pc = "loop"
    /\ \E s \in remaining :
        /\ remaining' = remaining \ {s}
        /\ originalSymbol' = s
        /\ symbol' = Normalize(s)
    /\ labels' = <<>>
    /\ mavenLabels' = {}
    /\ packageExists' = FALSE
    /\ branch' = "none"
    /\ accepted' = NoLabel
    /\ pc' = "pass1"
    /\ UNCHANGED <<outside, inputs, tables, deps, toCheck, forcedDeps, fatal, contributed>>

\* The body of the closure runLookupWithFallback on the loop variables st,
\* given what the three tables answer at st.symbol.
runLookupWithFallback(st, skipIsSymbolCheck, ov, ix, pm) ==
    LET found == lookUpSymbol(ov, ix) IN
    IF Len(found) = 0
    THEN [symbol |-> IF PeelsSegment(skipIsSymbolCheck, st.symbol, pm.exists)
                     THEN Peel(st.symbol) ELSE st.symbol,
          labels |-> found,
          mavenLabels |-> pm.labels,
          packageExists |-> pm.exists]
    ELSE [st EXCEPT !.labels = found]

\* if !packageExists { if len(labels) == 0 { labels = lookUpSymbol(...) };
\*                     mavenLabels, packageExists = PackageMapping[symbol] }
finalLookup(st, ov, ix, pm) ==
    IF st.packageExists
    THEN st
    ELSE [st EXCEPT !.labels = IF Len(st.labels) = 0 THEN lookUpSymbol(ov, ix) ELSE @,
                    !.mavenLabels = pm.labels,
                    !.packageExists = pm.exists]

\* Variant: the second pass runs whatever the first pass found.
RunsSecondPass_Always(st) == TRUE

\* if len(labels) == 0 && !packageExists
RunsSecondPass(st) == Len(st.labels) = 0 /\ ~st.packageExists

\* The value of table t at key k, d where t does not hold k.
TableAt(t, k, d) == IF k \in DOMAIN t THEN t[k] ELSE d

\* One call of the closure on st, reading the tables as they are.
lookupWithTables(st, skipIsSymbolCheck) ==
    runLookupWithFallback(st, skipIsSymbolCheck,
                          TableAt(overrides, st.symbol, NoOverride),
                          TableAt(ruleIndex, st.symbol, <<>>),
                          TableAt(PackageMapping, st.symbol, NoPackage))

\* The loop variables of the iteration for used symbol s when the tie-break
\* is reached: normalization, first pass, second pass, final lookup.
resolveSymbol(s) ==
    LET st0 == [symbol |-> Normalize(s), labels |-> <<>>, mavenLabels |-> {},
                packageExists |-> FALSE]
        st1 == lookupWithTables(st0, TRUE)
        st2 == IF RunsSecondPass(st1) THEN lookupWithTables(st1, FALSE) ELSE st1
    IN finalLookup(st2,
                   TableAt(overrides, st2.symbol, NoOverride),
                   TableAt(ruleIndex, st2.symbol, <<>>),
                   TableAt(PackageMapping, st2.symbol, NoPackage))

LoopState == [symbol |-> symbol, labels |-> labels, mavenLabels |-> mavenLabels,
              packageExists |-> packageExists]

SetLoopState(st) ==
    /\ symbol' = st.symbol
    /\ labels' = st.labels
    /\ mavenLabels' = st.mavenLabels
    /\ packageExists' = st.packageExists

\* One call of the closure: the override table is read, the rule index if
\* there is no override, the package mapping if no label was found.
CallLookupWithFallback(skipIsSymbolCheck) ==
    \E ov \in Answers(overrides, symbol, OverrideAnswers) :
    \E ix \in (IF ov.exists THEN {<<>>} ELSE Answers(ruleIndex, symbol, IndexAnswers)) :
    \E pm \in (IF Len(lookUpSymbol(ov, ix)) = 0
               THEN Answers(PackageMapping, symbol, PackageAnswers) ELSE {NoPackage}) :
        /\ overrides' = Fix(overrides, symbol, ov)
        /\ ruleIndex' = IF ov.exists THEN ruleIndex ELSE Fix(ruleIndex, symbol, ix)
        /\ PackageMapping' = IF Len(lookUpSymbol(ov, ix)) = 0
                             THEN Fix(PackageMapping, symbol, pm) ELSE PackageMapping
        /\ SetLoopState(runLookupWithFallback(LoopState, skipIsSymbolCheck, ov, ix, pm))

\* runLookupWithFallback(true)
FirstPass ==
    /\ pc = "pass1"
    /\ CallLookupWithFallback(TRUE)
    /\ pc' = IF RunsSecondPass([labels |-> labels', packageExists |-> packageExists'])
             THEN "pass2" ELSE "final"
    /\ UNCHANGED <<outside, inputs, remaining, deps, originalSymbol, branch, accepted,
                   toCheck, forcedDeps, fatal, contributed>>

\* runLookupWithFallback(false)
SecondPass ==
    /\ pc = "pass2"
    /\ CallLookupWithFallback(FALSE)
    /\ pc' = "final"
    /\ UNCHANGED <<outside, inputs, remaining, deps, originalSymbol, branch, accepted,
                   toCheck, forcedDeps, fatal, contributed>>

\* The final lookup, which reads nothing once a package entry was found.
FinalPass ==
    /\ pc = "final"
    /\ IF packageExists
       THEN UNCHANGED <<tables, loopVars>>
       ELSE \E ov \in (IF Len(labels) = 0 THEN Answers(overrides, symbol, OverrideAnswers)
                       ELSE {NoOverride}) :
            \E ix \in (IF Len(labels) = 0 /\ ~ov.exists
                       THEN Answers(ruleIndex, symbol, IndexAnswers) ELSE {<<>>}) :
            \E pm \in Answers(PackageMapping, symbol, PackageAnswers) :
                /\ overrides' = IF Len(labels) = 0 THEN Fix(overrides, symbol, ov) ELSE overrides
                /\ ruleIndex' = IF Len(labels) = 0 /\ ~ov.exists
                                THEN Fix(ruleIndex, symbol, ix) ELSE ruleIndex
                /\ PackageMapping' = Fix(PackageMapping, symbol, pm)
                /\ SetLoopState(finalLookup(LoopState, ov, ix, pm))
                /\ UNCHANGED originalSymbol
    /\ pc' = "tiebreak"
    /\ UNCHANGED <<outside, inputs, remaining, deps, branch, accepted,
                   toCheck, forcedDeps, fatal, contributed>>

\* addDep(dep), up to the first test of the loop of forcedTransitiveDepsForDep:
\* forcedDeps := {dep}, toCheck := [dep], unless dep is excluded.
addDep(dep) ==
    /\ accepted' = dep
    /\ IF AddsDep(dep, excludedArtifacts)
       THEN /\ toCheck' = <<dep>>
            /\ forcedDeps' = {dep}
            /\ pc' = "expand"
            /\ UNCHANGED contributed
       ELSE /\ pc' = "loop"
            /\ contributed' = contributed @@ (originalSymbol :> {})
            /\ UNCHANGED <<toCheck, forcedDeps>>

\* This symbol adds nothing and the loop goes on.
noDep ==
    /\ pc' = "loop"
    /\ contributed' = contributed @@ (originalSymbol :> {})
    /\ UNCHANGED <<accepted, toCheck, forcedDeps>>

\* log.Fatalf: the process exits and nothing is returned.
logFatal(kind, candidates) ==
    /\ pc' = "fatal"
    /\ fatal' = [kind |-> kind, from |-> from, symbol |-> symbol, candidates |-> candidates]
    /\ UNCHANGED <<accepted, toCheck, forcedDeps, contributed>>

\* The if / else-if chain that ends the loop body.
TieBreak ==
    /\ pc = "tiebreak"
    /\ LET arm == TieBreakArm(labels, packageExists, mavenLabels, excludedArtifacts)
           visible == visibleLabels(mavenLabels, ArtifactLabels)
       IN /\ branch' = arm
          /\ CASE arm = "ambiguous" -> logFatal("multipleDefinitions", Range(labels))
               [] arm = "ruleIndex" ->
                    /\ IF IsSelfDependency(from, labels[1]) THEN noDep ELSE addDep(labels[1])
                    /\ UNCHANGED fatal
               [] arm = "package" ->
                    IF Cardinality(visible) = 1
                    THEN addDep(CHOOSE l \in visible : TRUE) /\ UNCHANGED fatal
                    ELSE IF Cardinality(visible) > 1
                    THEN logFatal("multipleJars", visible)
                    ELSE logFatal("noneVisible", mavenLabels)
               [] OTHER -> noDep /\ UNCHANGED fatal
    /\ UNCHANGED <<outside, inputs, tables, remaining, deps, loopVars>>

\* One turn of the loop of forcedTransitiveDepsForDep: pop nextDep, push and
\* add its forced dependencies.  A stack longer than MaxStack is not followed.
ExpandStep ==
    /\ pc = "expand"
    /\ Len(toCheck) > 0
    /\ LET nextDep == toCheck[Len(toCheck)]
           rest == SubSeq(toCheck, 1, Len(toCheck) - 1)
           pushed == depsToPush(transitiveDeps(ForcedTransitiveDeps, nextDep), forcedDeps)
       IN /\ Len(rest) + Len(pushed) <= MaxStack
          /\ toCheck' = appendToCheck(rest, pushed)
          /\ forcedDeps' = forcedDeps \cup Range(pushed)
    /\ UNCHANGED <<outside, inputs, tables, pc, remaining, deps, loopVars, branch, accepted,
                   fatal, contributed>>

\* The loop ends, forcedTransitiveDepsForDep returns and addDep unions.
ExpandReturn ==
    /\ pc = "expand"
    /\ Len(toCheck) = 0
    /\ deps' = UnionDeps(deps, forcedDeps)
    /\ contributed' = contributed @@ (originalSymbol :> forcedDeps)
    /\ pc' = "loop"
    /\ UNCHANGED <<outside, inputs, tables, remaining, loopVars, branch, accepted, toCheck,
                   forcedDeps, fatal>>

\* return deps
Return ==
    /\ pc = "loop"
    /\ remaining = {}
    /\ pc' = "returned"
    /\ UNCHANGED <<outside, inputs, tables, remaining, deps, loopVars, branch, accepted, toCheck,
                   forcedDeps, fatal, contributed>>

Next ==
    \/ NextSymbol
    \/ FirstPass
    \/ SecondPass
    \/ FinalPass
    \/ TieBreak
    \/ ExpandStep
    \/ ExpandReturn
    \/ Return

(***************************************************************************)
(* Initial states: the call ResolveJvmSymbols(c, ruleIndex, from, lang,     *)
(* usedSymbols) is about to run its loop.                                   *)
(***************************************************************************)
UsedUniverse ==
    { <<"x">>, <<"p", "Q">>, <<"_root_", "p", "r", "_">>, <<"p", "Q", "r">> }

SubsetsUpTo(S, n) == {T \in SUBSET S : Cardinality(T) <= n}

EmptyTable == <<>>

\* The configuration before the first Configure call, with no lock-file.
ConfigIdle ==
    /\ jvmConfigs = EmptyTable
    /\ treesets = <<>>
    /\ forcedDepsMaps = <<>>
    /\ installs = <<>>
    /\ mavenInstallCache = EmptyTable
    /\ lockFiles = EmptyTable
    /\ configureCalls = <<>>
    /\ parseCalls = <<>>
    /\ configFatal = "none"

\* No jarToLabel call.
LabelIdle ==
    /\ jarOrJarPath = <<>>
    /\ mavenLabelPrefix = <<>>
    /\ jarLabel = <<>>

\* A syntax-tree node: its type, whether it is a named node, the field of its
\* parent it fills ("" for none), its text and its children.
Node(type, field, content, children) ==
    [Type |-> type, Named |-> TRUE, Field |-> field, Content |-> content,
     Children |-> children]

Leaf(type, content) == Node(type, "", content, <<>>)

\* An anonymous node: a token of the grammar such as "{", its type is its text.
Token(type) ==
    [Type |-> type, Named |-> FALSE, Field |-> "", Content |-> <<type>>, Children |-> <<>>]

\* node.NamedChild(0), ..., node.NamedChild(node.NamedChildCount() - 1)
NamedChildren(node) == SelectSeq(node.Children, LAMBDA n : n.Named)

\* The same node as the child that fills a field of its parent.
InField(field, node) == [node EXCEPT !.Field = field]

\* Go's nil *sitter.Node.
NoNode == Leaf("", <<>>)

NewParser(debug, verboseTreeSitterErrors, dedupeParsing) ==
    [debug |-> debug, verboseTreeSitterErrors |-> verboseTreeSitterErrors,
     dedupeParsing |-> dedupeParsing, seenNodes |-> {}]

\* No import read.
ImportIdle ==
    /\ importNode = NoNode
    /\ imports = {}
    /\ importStatus = "none"

\* No scan.
ScanIdle ==
    /\ definedSymbols = {}
    /\ scanStatus = "none"

\* No Parse call.
ParseIdle ==
    /\ tree = NoNode
    /\ parser = NewParser(FALSE, FALSE, FALSE)
    /\ parseLog = <<>>

\* No ParseFile call, no cache.
CacheIdle ==
    /\ sourceFiles = <<>>
    /\ parsingCache = <<>>
    /\ parseFileLog = <<>>

\* The parser does nothing.
ParserIdle == ImportIdle /\ sourceCode = <<>> /\ ScanIdle /\ ParseIdle /\ CacheIdle

\* The other components stay as they are while the resolver runs.
OutsideIdle == ConfigIdle /\ LabelIdle /\ ParserIdle

Start ==
    /\ pc = "loop"
    /\ remaining = usedSymbols
    /\ deps = {}
    /\ originalSymbol = <<>>
    /\ symbol = <<>>
    /\ labels = <<>>
    /\ mavenLabels = {}
    /\ packageExists = FALSE
    /\ branch = "none"
    /\ accepted = NoLabel
    /\ toCheck = <<>>
    /\ forcedDeps = {}
    /\ fatal = NoFatal
    /\ contributed = EmptyTable
    /\ OutsideIdle

\* One used symbol, every table entry open, a few forced-dependency maps.
Init ==
    /\ from = LibLabel
    /\ usedSymbols \in {{s} : s \in UsedUniverse}
    /\ overrides = EmptyTable
    /\ ruleIndex = EmptyTable
    /\ PackageMapping = EmptyTable
    /\ ArtifactLabels \in SUBSET MavenLabels
    /\ excludedArtifacts \in SUBSET {OtherLabel, MavenA, MavenB}
    /\ ForcedTransitiveDeps \in {EmptyTable, (MavenA :> <<MavenB>>),
                                 (LibLabel :> <<MavenA>>) @@ (OtherLabel :> <<LibLabel, MavenA>>)}
    /\ Start

Spec == Init /\ [][Next]_vars

\* ResolveJvmSymbols is not running.
ResolverIdle ==
    /\ from = LibLabel
    /\ usedSymbols = {}
    /\ overrides = EmptyTable
    /\ ruleIndex = EmptyTable
    /\ PackageMapping = EmptyTable
    /\ ArtifactLabels = {}
    /\ excludedArtifacts = {}
    /\ ForcedTransitiveDeps = EmptyTable
    /\ pc = "idle"
    /\ remaining = {}
    /\ deps = {}
    /\ originalSymbol = <<>>
    /\ symbol = <<>>
    /\ labels = <<>>
    /\ mavenLabels = {}
    /\ packageExists = FALSE
    /\ branch = "none"
    /\ accepted = NoLabel
    /\ toCheck = <<>>
    /\ forcedDeps = {}
    /\ fatal = NoFatal
    /\ contributed = EmptyTable

(***************************************************************************)
(* The forced-dependency expansion over every map on three labels: one     *)
(* symbol, which the rule index or the package mapping resolves to MavenA, *)
(* or which nothing resolves (and then the map does not matter).           *)
(***************************************************************************)
ForcedLabels == {MavenA, MavenB, MavenC}

ForcedMaps ==
    UNION {[D -> SeqsUpTo(ForcedLabels, MaxDepList) \ {<<>>}] : D \in SUBSET ForcedLabels}

InitForced ==
    /\ from = LibLabel
    /\ usedSymbols = {<<"x">>}
    /\ overrides = (<<"x">> :> NoOverride)
    /\ \E ix \in {<<>>, <<MavenA>>} :
       \E pm \in {NoPackage, [exists |-> TRUE, labels |-> {MavenA}]} :
        /\ (ix = <<>> \/ ~pm.exists)
        /\ ruleIndex = (<<"x">> :> ix)
        /\ PackageMapping = (<<"x">> :> pm)
        /\ IF ix = <<>> /\ ~pm.exists
           THEN /\ excludedArtifacts = {}
                /\ ForcedTransitiveDeps = EmptyTable
           ELSE /\ excludedArtifacts \in SubsetsUpTo(ForcedLabels, 1)
                /\ ForcedTransitiveDeps \in ForcedMaps
    /\ ArtifactLabels = {MavenA}
    /\ Start

SpecForced == InitForced /\ [][Next]_vars

\* The loop of forcedTransitiveDepsForDep runs on, and so does the caller:
\* the process is sequential and nothing preempts it.
InitForcedFair ==
    /\ InitForced
    /\ excludedArtifacts = {}
    /\ ~PackageMapping[<<"x">>].exists

SpecForcedFair == InitForcedFair /\ [][Next]_vars /\ WF_vars(Next)

(***************************************************************************)
(* Several used symbols, iterated in any order, over fixed tables.          *)
(***************************************************************************)
MultiUniverse == { <<"x">>, <<"p", "Q">>, <<"_root_", "p", "r", "_">> }

RECURSIVE Prefixes(_)
Prefixes(s) == IF Len(s) = 0 THEN {} ELSE {s} \cup Prefixes(Peel(s))

MultiKeys == UNION {Prefixes(Normalize(s)) : s \in MultiUniverse}

InitMulti ==
    /\ from = LibLabel
    /\ usedSymbols \in {U \in SubsetsUpTo(MultiUniverse, MaxUsed) : Cardinality(U) >= 2}
    /\ overrides = [k \in MultiKeys |-> NoOverride]
    /\ ruleIndex \in [MultiKeys -> {<<>>, <<OtherLabel>>, <<MavenA>>}]
    /\ PackageMapping \in [MultiKeys -> {NoPackage, [exists |-> TRUE, labels |-> {MavenB}]}]
    /\ ArtifactLabels = MavenLabels
    /\ excludedArtifacts \in {{}, {MavenA}}
    /\ ForcedTransitiveDeps \in {EmptyTable, (MavenA :> <<MavenB>>),
                                 (OtherLabel :> <<MavenC>>) @@ (MavenB :> <<MavenA>>)}
    /\ Start

SpecMulti == InitMulti /\ [][Next]_vars

(***************************************************************************)
(* Properties of the tie-break.                                            *)
(***************************************************************************)

\* The tie-break of the current symbol has run.
Decided == branch /= "none"

\* The package-mapping labels of the current symbol that are visible.
VisibleCandidates == mavenLabels \cap ArtifactLabels

\* What the current symbol has added to deps, once its iteration is over.
AddedNothing ==
    /\ pc \in {"loop", "returned"}
    /\ originalSymbol \in DOMAIN contributed
    /\ contributed[originalSymbol] = {}

\* C1: when the lookup leaves more than one label in `labels`, the symbol's
\* iteration ends in the fatal error that names the requesting target, the
\* symbol and every candidate label, whatever the package mapping holds; no
\* label is accepted and nothing is returned.
C1_AmbiguousIndexIsFatal ==
    Len(labels) > 1 =>
        /\ pc \in {"final", "tiebreak", "fatal"}
        /\ accepted = NoLabel
        /\ Decided =>
            /\ pc = "fatal"
            /\ fatal = [kind |-> "multipleDefinitions", from |-> from,
                        symbol |-> symbol, candidates |-> Range(labels)]

\* Two distinct labels, and a package entry with exactly one visible label
\* that would otherwise have been accepted.
C1_Witness ==
    /\ pc = "fatal"
    /\ Len(labels) = 2
    /\ labels[1] /= labels[2]
    /\ packageExists
    /\ Cardinality(VisibleCandidates) = 1

\* C2 as stated: one rule-index match L and a package entry without L make
\* the package arm decide, and L is not what is accepted.
C2_PackageAlwaysWins ==
    (Decided /\ Len(labels) = 1 /\ packageExists /\ labels[1] \notin mavenLabels) =>
        /\ branch = "package"
        /\ accepted /= labels[1]

\* C2, amended: one rule-index match L, a package entry without L, and L not
\* in excludedArtifacts: the package arm decides, L is not accepted and what
\* is accepted is a visible label of the package entry; when L is in
\* excludedArtifacts the rule-index arm takes L and the symbol adds nothing.
C2_PackageWinsUnlessExcluded ==
    (Decided /\ Len(labels) = 1 /\ packageExists /\ labels[1] \notin mavenLabels) =>
        IF labels[1] \notin excludedArtifacts
        THEN /\ branch = "package"
             /\ accepted /= labels[1]
             /\ accepted /= NoLabel => accepted \in VisibleCandidates
             /\ accepted = NoLabel => pc = "fatal"
        ELSE /\ branch = "ruleIndex"
             /\ pc /= "fatal"
             /\ pc /= "expand"

\* The in-repo match loses to the one visible artifact of the package entry.
C2_Witness ==
    /\ pc = "returned"
    /\ labels = <<OtherLabel>>
    /\ packageExists
    /\ mavenLabels = {MavenA}
    /\ accepted = MavenA
    /\ MavenA \in deps
    /\ OtherLabel \notin deps

\* C3 as stated: an override at the symbol is what is accepted, whatever the
\* package mapping holds, and no fatal error is raised.
C3_OverrideAlwaysWins ==
    (Decided /\ symbol \in DOMAIN overrides /\ overrides[symbol].exists) =>
        /\ branch = "ruleIndex"
        /\ accepted = overrides[symbol].label
        /\ pc /= "fatal"

\* C4: in the package arm the candidates are the visible labels of the
\* entry; exactly one is accepted, several or none end in the fatal error.
C4_PackageArm ==
    (Decided /\ branch = "package") =>
        /\ Cardinality(VisibleCandidates) = 1 =>
            /\ accepted \in VisibleCandidates
            /\ pc /= "fatal"
        /\ Cardinality(VisibleCandidates) > 1 =>
            /\ accepted = NoLabel
            /\ pc = "fatal"
            /\ fatal = [kind |-> "multipleJars", from |-> from, symbol |-> symbol,
                        candidates |-> VisibleCandidates]
        /\ Cardinality(VisibleCandidates) = 0 =>
            /\ accepted = NoLabel
            /\ pc = "fatal"
            /\ fatal = [kind |-> "noneVisible", from |-> from, symbol |-> symbol,
                        candidates |-> mavenLabels]

\* Two providers, one of them not visible: the visible one is accepted.
C4_Witness ==
    /\ Decided
    /\ branch = "package"
    /\ Cardinality(mavenLabels) = 2
    /\ Cardinality(VisibleCandidates) = 1
    /\ accepted \in VisibleCandidates

\* C5: a symbol that the rule-index arm resolves to `from` itself adds
\* nothing: no addDep call, no expansion.
C5_NoSelfDependency ==
    (Decided /\ branch = "ruleIndex" /\ labels[1] = from) =>
        /\ accepted = NoLabel
        /\ AddedNothing

\* `from` has forced dependencies, which are not added either.
C5_Witness ==
    /\ pc = "returned"
    /\ branch = "ruleIndex"
    /\ labels = <<from>>
    /\ from \in DOMAIN ForcedTransitiveDeps
    /\ deps = {}

\* The labels that resolve the current symbol.
Resolutions == Range(labels) \cup (IF packageExists THEN mavenLabels ELSE {})

\* C7 as stated: a symbol whose only resolution is an excluded label adds
\* nothing, and no fatal error is raised.
C7_ExcludedAddsNothing ==
    (Decided /\ Len(labels) <= 1 /\ Cardinality(Resolutions) = 1
        /\ Resolutions \subseteq excludedArtifacts) =>
        AddedNothing

\* C7, amended: a symbol whose only resolution is an excluded label A adds
\* nothing and raises no fatal error when A is the one rule-index match or a
\* visible label of the package entry; when A comes from the package entry
\* alone and is not visible, the run ends in the none-visible fatal error.
C7_ExcludedAddsNothingWhenReachable ==
    (Decided /\ Len(labels) <= 1 /\ Cardinality(Resolutions) = 1
        /\ Resolutions \subseteq excludedArtifacts) =>
        IF Len(labels) = 1 \/ (Len(labels) = 0 /\ Resolutions \subseteq ArtifactLabels)
        THEN AddedNothing
        ELSE pc = "fatal"

\* The excluded label has forced dependencies, which are dropped with it.
C7_Witness ==
    /\ pc = "returned"
    /\ labels = <<MavenA>>
    /\ accepted = MavenA
    /\ MavenA \in excludedArtifacts
    /\ MavenA \in DOMAIN ForcedTransitiveDeps
    /\ deps = {}

(***************************************************************************)
(* Properties of the forced-dependency expansion.                          *)
(***************************************************************************)

Successors(F, l) == IF l \in DOMAIN F THEN Range(F[l]) ELSE {}

RECURSIVE ReachClosure(_, _)
ReachClosure(F, S) ==
    LET N == S \cup UNION {Successors(F, l) : l \in S}
    IN IF N = S THEN S ELSE ReachClosure(F, N)

\* The labels reachable from a by zero or more edges of F.
ReachableFrom(F, a) == ReachClosure(F, {a})

\* Some label reachable from a lies on a cycle of F.
CycleReachable(F, a) ==
    \E l \in ReachableFrom(F, a) : l \in ReachClosure(F, Successors(F, l))

\* C6: once an accepted label that is not excluded has been expanded,
\* forcedDeps is exactly the set of labels reachable from it by zero or more
\* edges of ForcedTransitiveDeps, and deps holds all of them.
C6_ForcedClosure ==
    (pc \in {"loop", "returned"} /\ accepted /= NoLabel
        /\ accepted \notin excludedArtifacts) =>
        /\ forcedDeps = ReachableFrom(ForcedTransitiveDeps, accepted)
        /\ ReachableFrom(ForcedTransitiveDeps, accepted) \subseteq deps

\* forcedTransitiveDeps = {A: [B], B: [C]} and a symbol that maps to A.
C6_Witness ==
    /\ pc = "returned"
    /\ ForcedTransitiveDeps = (MavenA :> <<MavenB>>) @@ (MavenB :> <<MavenC>>)
    /\ accepted = MavenA
    /\ deps = {MavenA, MavenB, MavenC}

\* C8 as stated: the returned set holds no excluded label.
C8_NoExcludedDependency ==
    pc = "returned" => deps \cap excludedArtifacts = {}

\* C9: the expansion of a label from which a cycle is reachable is never
\* left, and the expansion of a label from which no cycle is reachable ends
\* and ResolveJvmSymbols returns.
C9_TerminatesIffNoCycle ==
    /\ [][(pc = "expand" /\ CycleReachable(ForcedTransitiveDeps, accepted))
            => pc' = "expand"]_vars
    /\ (pc = "expand" /\ ~CycleReachable(ForcedTransitiveDeps, accepted))
            ~> (pc = "returned")

\* A -> B -> A: the loop is back at A with everything already in forcedDeps.
C9_Witness ==
    /\ pc = "expand"
    /\ ForcedTransitiveDeps = (MavenA :> <<MavenB>>) @@ (MavenB :> <<MavenA>>)
    /\ accepted = MavenA
    /\ forcedDeps = {MavenA, MavenB}
    /\ toCheck = <<MavenA>>

(***************************************************************************)
(* Properties of the loop over usedSymbols.                                 *)
(***************************************************************************)

\* The label that resolving s on its own hands to addDep, if any.
SoloAccepted(s) ==
    LET st == resolveSymbol(s)
        arm == TieBreakArm(st.labels, st.packageExists, st.mavenLabels, excludedArtifacts)
        visible == st.mavenLabels \cap ArtifactLabels
    IN IF arm = "ruleIndex" /\ st.labels[1] /= from THEN {st.labels[1]}
       ELSE IF arm = "package" /\ Cardinality(visible) = 1 THEN visible
       ELSE {}

\* The set that resolving s on its own returns.
SoloDeps(s) ==
    UNION {ReachableFrom(ForcedTransitiveDeps, a) : a \in SoloAccepted(s) \ excludedArtifacts}

\* C10: the returned set is the union of what each used symbol yields on its
\* own, in whatever order the symbols were iterated.
C10_OrderIndependent ==
    pc = "returned" => deps = UNION {SoloDeps(s) : s \in usedSymbols}

\* Two symbols that yield different, non-empty sets.
C10_Witness ==
    /\ pc = "returned"
    /\ \E s1, s2 \in usedSymbols :
        /\ SoloDeps(s1) /= {}
        /\ SoloDeps(s2) /= {}
        /\ ~(SoloDeps(s1) \subseteq SoloDeps(s2))
        /\ ~(SoloDeps(s2) \subseteq SoloDeps(s1))

(***************************************************************************)
(* Symbols nested under a package that the package mapping holds: the rule  *)
(* index and the package mapping are total on every prefix of the used     *)
(* symbols, and the package "p" is always mapped.                          *)
(***************************************************************************)
DeepPackage == <<"p">>

DeepUniverse ==
    { <<"p", "a">>, <<"p", "a", "b">>, <<"p", "Q", "r">>, <<"p", "a", "b", "c">>,
      <<"p", "Q", "R", "s">> }

DeepKeys == UNION {Prefixes(s) : s \in DeepUniverse}

\* The tables with the one entry v at key k and d elsewhere; k outside the
\* keys gives the table that is d everywhere.
OneEntry(keys, k, v, d) == [x \in keys |-> IF x = k THEN v ELSE d]

InitDeep ==
    /\ from = LibLabel
    /\ usedSymbols \in {{s} : s \in DeepUniverse}
    /\ overrides = [k \in DeepKeys |-> NoOverride]
    /\ ruleIndex \in {OneEntry(DeepKeys, k, <<OtherLabel>>, <<>>) : k \in DeepKeys \cup {<<>>}}
    /\ PackageMapping \in
         {(DeepPackage :> [exists |-> TRUE, labels |-> {MavenA}])
            @@ OneEntry(DeepKeys, k, [exists |-> TRUE, labels |-> {MavenB}], NoPackage)
          : k \in DeepKeys}
    /\ ArtifactLabels \in {MavenLabels, {MavenB}}
    /\ excludedArtifacts = {}
    /\ ForcedTransitiveDeps \in {EmptyTable, (MavenA :> <<MavenB>>)}
    /\ Start

SpecDeep == InitDeep /\ [][Next]_vars

\* Among the prefixes of s, the package mapping holds P and nothing else,
\* and neither an override nor the rule index matches any of them.
OnlyMappedAt(P, s) ==
    /\ P \in Prefixes(s)
    /\ \A k \in Prefixes(s) :
        /\ ~TableAt(overrides, k, NoOverride).exists
        /\ TableAt(ruleIndex, k, <<>>) = <<>>
        /\ TableAt(PackageMapping, k, NoPackage).exists <=> k = P

\* The lookups of one iteration arrive at P from s: s is P, or one segment
\* under P, or two segments under P with a first one that isSymbol accepts.
ArrivesAt(P, s) ==
    \/ s = P
    \/ Len(s) >= 2 /\ Peel(s) = P
    \/ Len(s) >= 3 /\ Peel(Peel(s)) = P /\ isSymbol(LastSegment(Peel(s)))

\* C11 as stated: a symbol three segments under the only mapped prefix P is
\* whittled down to P and decided by P's package entry.
C11_PeelsUntilPackage ==
    (Decided /\ Len(Normalize(originalSymbol)) = Len(DeepPackage) + 3
        /\ OnlyMappedAt(DeepPackage, Normalize(originalSymbol))) =>
        /\ symbol = DeepPackage
        /\ branch = "package"

\* C11, amended: at most two trailing segments are peeled, the second one
\* only when isSymbol accepts it.  With P the only mapped prefix and no
\* rule-index match, the symbol is decided by P's package entry exactly
\* when it is P, one segment under P, or two segments under P with a first
\* segment that is not all lowercase; any other symbol, one three segments
\* under P included, is left unresolved and adds nothing.
C11_PeelsAtMostTwice ==
    /\ originalSymbol /= <<>> => Len(symbol) >= Len(Normalize(originalSymbol)) - 2
    /\ (Decided /\ OnlyMappedAt(DeepPackage, Normalize(originalSymbol))) =>
        IF ArrivesAt(DeepPackage, Normalize(originalSymbol))
        THEN /\ symbol = DeepPackage
             /\ branch = "package"
        ELSE /\ branch = "unresolved"
             /\ accepted = NoLabel
             /\ AddedNothing

\* p.Q.r: two segments are peeled and the package entry of p decides.
C11_Witness ==
    /\ pc = "returned"
    /\ originalSymbol = <<"p", "Q", "r">>
    /\ OnlyMappedAt(DeepPackage, originalSymbol)
    /\ symbol = DeepPackage
    /\ accepted = MavenA
    /\ MavenA \in deps

(***************************************************************************)
(* jarToLabel.  A string is the sequence of its characters; the label      *)
(* prefix is kept as the pieces "@", the repository name and "//:".         *)
(***************************************************************************)
DEFAULT_MAVEN_REPO_NAME == "maven"

DEFAULT_MAVEN_LABEL_PREFIX == <<"@", DEFAULT_MAVEN_REPO_NAME, "//:">>

\* fmt.Sprintf("@%s//:", name)
RepositoryPrefix(name) == <<"@", name, "//:">>

JarInfix == <<":", "j", "a", "r", ":">>

\* The old strings of the strings.NewReplacer call, in argument order; each
\* is replaced by "_".
ReplacerOlds == <<JarInfix, <<".">>, <<"-">>, <<":">>, <<"/">>>>

\* The argument order with ":" ahead of ":jar:".
ReplacerOlds_ColonFirst == <<<<":">>, JarInfix, <<".">>, <<"-">>, <<"/">>>>

\* strings.HasPrefix(s[i:], old), positions from 1
HasPrefixAt(s, i, old) ==
    /\ i + Len(old) - 1 <= Len(s)
    /\ SubSeq(s, i, i + Len(old) - 1) = old

\* The old string the replacer matches at position i: the first in argument
\* order that is a prefix there; 0 when none is.
MatchAt(olds, s, i) ==
    IF \E k \in 1..Len(olds) : HasPrefixAt(s, i, olds[k])
    THEN CHOOSE k \in 1..Len(olds) :
            /\ HasPrefixAt(s, i, olds[k])
            /\ \A j \in 1..(k - 1) : ~HasPrefixAt(s, i, olds[j])
    ELSE 0

\* Replacer.Replace from position i on: matches are taken left to right,
\* without overlap, and what was written is not scanned again.
RECURSIVE Replace(_, _, _)
Replace(olds, s, i) ==
    IF i > Len(s) THEN <<>>
    ELSE LET k == MatchAt(olds, s, i)
         IN IF k = 0
            THEN <<s[i]>> \o Replace(olds, s, i + 1)
            ELSE <<"_">> \o Replace(olds, s, i + Len(olds[k]))

\* Variant: the ":" rule is listed before the ":jar:" rule.
jarToLabel_ColonFirst(path, prefix) == prefix \o Replace(ReplacerOlds_ColonFirst, path, 1)

jarToLabel(path, prefix) == prefix \o Replace(ReplacerOlds, path, 1)

MaxPieces == 3      \* most pieces a coordinate is put together from

CoordinatePieces ==
    { JarInfix, <<":", "j", "a", "r">>, <<"j", "a", "r">>, <<":">>, <<".">>, <<"-">>,
      <<"/">>, <<"a">>, <<"_">> }

RECURSIVE Flatten(_)
Flatten(ss) == IF Len(ss) = 0 THEN <<>> ELSE Head(ss) \o Flatten(Tail(ss))

\* com.twitter:finatra-http_2.12:jar:tests
FinatraTests ==
    <<"c", "o", "m", ".", "t", "w", "i", "t", "t", "e", "r", ":", "f", "i", "n", "a", "t",
      "r", "a", "-", "h", "t", "t", "p", "_", "2", ".", "1", "2", ":", "j", "a", "r", ":",
      "t", "e", "s", "t", "s">>

\* @maven//:com_twitter_finatra_http_2_12_tests
FinatraTestsLabel ==
    <<"@", "maven", "//:", "c", "o", "m", "_", "t", "w", "i", "t", "t", "e", "r", "_", "f",
      "i", "n", "a", "t", "r", "a", "_", "h", "t", "t", "p", "_", "2", "_", "1", "2", "_",
      "t", "e", "s", "t", "s">>

Coordinates ==
    {Flatten(ps) : ps \in SeqsUpTo(CoordinatePieces, MaxPieces)} \cup {FinatraTests}

InitLabel ==
    /\ jarOrJarPath \in Coordinates
    /\ mavenLabelPrefix \in {DEFAULT_MAVEN_LABEL_PREFIX, RepositoryPrefix("other")}
    /\ jarLabel = <<>>
    /\ ConfigIdle
    /\ ResolverIdle
    /\ ParserIdle

\* label := jarToLabel(jarOrJarPath, mavenLabelPrefix)
CallJarToLabel ==
    /\ jarLabel = <<>>
    /\ jarLabel' = jarToLabel(jarOrJarPath, mavenLabelPrefix)
    /\ UNCHANGED <<resolverVars, configVars, parserVars, jarOrJarPath, mavenLabelPrefix>>

NextLabel == CallJarToLabel

SpecLabel == InitLabel /\ [][NextLabel]_vars

\* strings.ReplaceAll(s, ":jar:", "_") from position i on.
RECURSIVE ReplaceAllJarInfix(_, _)
ReplaceAllJarInfix(s, i) ==
    IF i > Len(s) THEN <<>>
    ELSE IF HasPrefixAt(s, i, JarInfix)
         THEN <<"_">> \o ReplaceAllJarInfix(s, i + Len(JarInfix))
         ELSE <<s[i]>> \o ReplaceAllJarInfix(s, i + 1)

SeparatorChars == {".", "-", ":", "/"}

\* Every character of SeparatorChars replaced by "_".
ReplaceSeparators(s) == [i \in 1..Len(s) |-> IF s[i] \in SeparatorChars THEN "_" ELSE s[i]]

\* C14: the label is the prefix followed by the coordinate with every ":jar:"
\* replaced by one "_" and then every remaining ".", "-", ":" and "/"
\* replaced by "_"; past the prefix it holds none of these characters, and
\* com.twitter:finatra-http_2.12:jar:tests under @maven//: becomes
\* @maven//:com_twitter_finatra_http_2_12_tests.
C14_JarToLabel ==
    jarLabel /= <<>> =>
        /\ jarLabel = mavenLabelPrefix \o ReplaceSeparators(ReplaceAllJarInfix(jarOrJarPath, 1))
        /\ \A i \in (Len(mavenLabelPrefix) + 1)..Len(jarLabel) : jarLabel[i] \notin SeparatorChars
        /\ (jarOrJarPath = FinatraTests /\ mavenLabelPrefix = DEFAULT_MAVEN_LABEL_PREFIX)
             => jarLabel = FinatraTestsLabel

\* The coordinate with a classifier has been rewritten.
C14_Witness ==
    /\ jarOrJarPath = FinatraTests
    /\ jarLabel = FinatraTestsLabel

(***************************************************************************)
(* ParseMavenInstall.  The lock-file is the decoded JSON: "artifacts" maps  *)
(* a coordinate to the classifiers under its "shasums", "packages" maps a   *)
(* key to its package names.  Coordinates and labels are character          *)
(* sequences, package names are segment sequences as in the resolver.       *)
(***************************************************************************)
DEFAULT_MAVEN_INSTALL_FILE == "maven_install.json"

\* "@maven//:org_scala_lang_scala_library", with the coordinate
\* org.scala-lang:scala-library written s:l
ScalaLibrary == <<"s", ":", "l">>

DEFAULT_ARTIFACT_EXCLUDES == {<<"@", "maven", "//:", "s", "_", "l">>}

\* "scala.reflect.runtime.universe" -> {"@maven//:org_scala_lang_scala_reflect"}
DEFAULT_PACKAGE_MAP ==
    (<<"scala", "reflect", "runtime", "universe">> :> {<<"@", "maven", "//:", "s", "_", "r">>})

DEFAULT_FORCED_TRANSITIVE_DEPS == EmptyTable

JarClassifier == <<"j", "a", "r">>
SourcesClassifier == <<"s", "o", "u", "r", "c", "e", "s">>
TestsClassifier == <<"t", "e", "s", "t", "s">>

\* Variant: the sources classifier is treated like any other.
SkipsClassifier_Never(classifier) == FALSE

\* if classifier == "sources" { continue }
SkipsClassifier(classifier) == classifier = SourcesClassifier

\* classifiedArtifact, for a classifier that is not skipped
classifiedArtifact(artifact, classifier) ==
    IF classifier /= JarClassifier THEN artifact \o JarInfix \o classifier ELSE artifact

\* The (artifact, classifier) pairs whose label is added: the classifier is
\* not skipped, "packages" holds the classified artifact, and the label is
\* not excluded.
AddedPairs(installJSON, prefix, artifactExcludes) ==
    {ac \in UNION {{<<a, c>> : c \in installJSON.artifacts[a]} : a \in DOMAIN installJSON.artifacts} :
        /\ ~SkipsClassifier(ac[2])
        /\ classifiedArtifact(ac[1], ac[2]) \in DOMAIN installJSON.packages
        /\ jarToLabel(classifiedArtifact(ac[1], ac[2]), prefix) \notin artifactExcludes}

\* Variant: a default takes priority over what the lock-file provides.
InstallDefaults_DefaultsFirst(inversed) == DEFAULT_PACKAGE_MAP @@ inversed

\* for pkg, mavenLabels := range DEFAULT_PACKAGE_MAP { if !exists {...} }
InstallDefaults(inversed) == inversed @@ DEFAULT_PACKAGE_MAP

\* The two loops of ParseMavenInstall: artifacts and inversed, then the
\* defaults for the packages the lock-file does not provide.
BuildMavenInstallData(installJSON, prefix, artifactExcludes) ==
    LET added == AddedPairs(installJSON, prefix, artifactExcludes)
        key(ac) == classifiedArtifact(ac[1], ac[2])
        label(ac) == jarToLabel(key(ac), prefix)
        packageNames == UNION {installJSON.packages[key(ac)] : ac \in added}
        inversed == [pkg \in packageNames |->
                        {label(ac) : ac \in {x \in added : pkg \in installJSON.packages[key(x)]}}]
    IN [ArtifactLabels |-> {label(ac) : ac \in added},
        PackageMapping |-> InstallDefaults(inversed)]

\* Variant: the cache is never hit.
CacheHit_Never(cache, path) == FALSE

\* mavenInstallData, exists := mavenInstallCache[path]
CacheHit(cache, path) == path \in DOMAIN cache

\* ParseMavenInstall on the heap h = [installs, cache, calls, fatal]: the
\* heap after the call and the reference returned (0 after log.Fatalf).
ParseMavenInstall(h, path, prefix, artifactExcludes) ==
    LET call == [path |-> path, prefix |-> prefix, excludes |-> artifactExcludes]
    IN IF CacheHit(h.cache, path)
       THEN [h EXCEPT !.calls = Append(@, call @@ [opened |-> FALSE, result |-> h.cache[path]]),
                      !.returned = h.cache[path]]
       ELSE IF path \notin DOMAIN lockFiles
       THEN [h EXCEPT !.fatal = "open", !.returned = 0]
       ELSE LET ref == Len(h.installs) + 1
            IN [h EXCEPT !.installs = Append(@, BuildMavenInstallData(lockFiles[path], prefix,
                                                                     artifactExcludes)),
                         !.cache = (path :> ref) @@ @,
                         !.calls = Append(@, call @@ [opened |-> TRUE, result |-> ref]),
                         !.returned = ref]

(***************************************************************************)
(* JvmConfig and JvmConfigurer.Configure.  A package is its path; the       *)
(* fields excludedArtifacts, ForcedTransitiveDeps and MavenInstall hold     *)
(* references into treesets, forcedDepsMaps and installs, 0 for nil.        *)
(***************************************************************************)
JavaExcludeArtifact == "java_exclude_artifact"
JavaMavenInstallFile == "java_maven_install_file"
JavaMavenRepositoryName == "java_maven_repository_name"
ScalaForcedTransitiveDeps == "scala_forced_transitive_deps"

RootPackage == ""

\* path.Dir(pkg), "." replaced by "", on the packages of the model
ParentForPackage(pkg) == IF pkg = "a/c" THEN "a" ELSE RootPackage

\* The globals DEFAULT_ARTIFACT_EXCLUDES and DEFAULT_FORCED_TRANSITIVE_DEPS
\* are the first object of their heap.
NewJvmConfig ==
    [excludedArtifacts |-> 1, MavenInstall |-> 0,
     MavenLabelPrefix |-> DEFAULT_MAVEN_LABEL_PREFIX, ForcedTransitiveDeps |-> 1]

\* Variant: the child holds the parent's map, not a copy.
childMap_Shared(maps, parentRef) == [ref |-> parentRef, maps |-> maps]

\* childMap := make(...); for key, value := range *c.ForcedTransitiveDeps {...}
childMap(maps, parentRef) == [ref |-> Len(maps) + 1, maps |-> Append(maps, maps[parentRef])]

\* NewChild, given the reference of the child's map
NewChild(c, childMapRef) ==
    [excludedArtifacts |-> c.excludedArtifacts, MavenInstall |-> c.MavenInstall,
     MavenLabelPrefix |-> c.MavenLabelPrefix, ForcedTransitiveDeps |-> childMapRef]

\* getOrInitJvmConfigs
getOrInitJvmConfigs(configs) ==
    IF DOMAIN configs = {} THEN (RootPackage :> NewJvmConfig) ELSE configs

\* One directive of the loop over f.Directives, on the locals and fields
\* acc = [artifactExcludes, mavenInstallFile, MavenLabelPrefix, forcedMap, fatal];
\* artifactExcludes = {} stands for nil.  d.Value of a forced-deps directive
\* is given as strings.Split(d.Value, " "), its second field as
\* strings.Split(values[1], ",").
ApplyDirective(d, acc) ==
    CASE d.Key = JavaExcludeArtifact ->
            [acc EXCEPT !.artifactExcludes = @ \cup {d.Value}]
      [] d.Key = JavaMavenInstallFile ->
            [acc EXCEPT !.mavenInstallFile = d.Value]
      [] d.Key = JavaMavenRepositoryName ->
            [acc EXCEPT !.MavenLabelPrefix = RepositoryPrefix(d.Value)]
      [] d.Key = ScalaForcedTransitiveDeps ->
            IF Len(d.Value) /= 2
            THEN [acc EXCEPT !.fatal = "invalidDirective"]
            ELSE [acc EXCEPT !.forcedMap = (d.Value[1] :> d.Value[2]) @@ @]
      [] OTHER -> acc

RECURSIVE ApplyDirectives(_, _)
ApplyDirectives(ds, acc) ==
    IF Len(ds) = 0 \/ acc.fatal /= "none" THEN acc
    ELSE ApplyDirectives(Tail(ds), ApplyDirective(Head(ds), acc))

\* c.excludedArtifacts = c.excludedArtifacts.Union(artifacts): a new set
addExcludedArtifacts(sets, ref, artifacts) ==
    [ref |-> Len(sets) + 1, sets |-> Append(sets, sets[ref] \cup artifacts)]

\* The body of Configure for a package without a config: the state it
\* leaves, as a record of the fields it assigns.
ConfigureBody(rel, f) ==
    LET configs == getOrInitJvmConfigs(jvmConfigs)
        exists == rel \in DOMAIN configs
        child == childMap(forcedDepsMaps, configs[ParentForPackage(rel)].ForcedTransitiveDeps)
        maps0 == IF exists THEN forcedDepsMaps ELSE child.maps
        jvmConfig == IF exists THEN configs[rel]
                     ELSE NewChild(configs[ParentForPackage(rel)], child.ref)
        acc0 == [artifactExcludes |-> {}, mavenInstallFile |-> "",
                 MavenLabelPrefix |-> jvmConfig.MavenLabelPrefix,
                 forcedMap |-> maps0[jvmConfig.ForcedTransitiveDeps], fatal |-> "none"]
        acc == IF f.exists THEN ApplyDirectives(f.Directives, acc0) ELSE acc0
        excl == IF acc.fatal = "none" /\ acc.artifactExcludes /= {}
                THEN addExcludedArtifacts(treesets, jvmConfig.excludedArtifacts,
                                          acc.artifactExcludes)
                ELSE [ref |-> jvmConfig.excludedArtifacts, sets |-> treesets]
        h0 == [installs |-> installs, cache |-> mavenInstallCache, calls |-> parseCalls,
               fatal |-> acc.fatal, returned |-> jvmConfig.MavenInstall]
        \* setMavenInstall with the file of the directive, else with the
        \* default file when MavenInstall is still nil
        path == IF acc.mavenInstallFile /= "" THEN acc.mavenInstallFile
                ELSE DEFAULT_MAVEN_INSTALL_FILE
        h1 == IF acc.fatal = "none" /\ (acc.mavenInstallFile /= "" \/ jvmConfig.MavenInstall = 0)
              THEN ParseMavenInstall(h0, path, acc.MavenLabelPrefix, excl.sets[excl.ref])
              ELSE h0
    IN [jvmConfigs |-> (rel :> [excludedArtifacts |-> excl.ref,
                                MavenInstall |-> h1.returned,
                                MavenLabelPrefix |-> acc.MavenLabelPrefix,
                                ForcedTransitiveDeps |-> jvmConfig.ForcedTransitiveDeps])
                       @@ configs,
        forcedDepsMaps |-> [maps0 EXCEPT ![jvmConfig.ForcedTransitiveDeps] = acc.forcedMap],
        treesets |-> excl.sets,
        installs |-> h1.installs,
        mavenInstallCache |-> h1.cache,
        parseCalls |-> h1.calls,
        configFatal |-> h1.fatal]

\* Configure(c, rel, f); f.exists is f != nil.
Configure(rel, f) ==
    /\ configFatal = "none"
    /\ rel \notin Range(configureCalls)
    /\ rel = RootPackage \/ ParentForPackage(rel) \in Range(configureCalls)
    /\ \E after \in {ConfigureBody(rel, f)} :
        /\ jvmConfigs' = after.jvmConfigs
        /\ forcedDepsMaps' = after.forcedDepsMaps
        /\ treesets' = after.treesets
        /\ installs' = after.installs
        /\ mavenInstallCache' = after.mavenInstallCache
        /\ parseCalls' = after.parseCalls
        /\ configFatal' = after.configFatal
    /\ configureCalls' = Append(configureCalls, rel)
    /\ UNCHANGED <<resolverVars, labelVars, parserVars, lockFiles>>

(***************************************************************************)
(* Configuration of a directory tree: the root, two sibling packages and a  *)
(* package under one of them, each configured once, parent before child.    *)
(***************************************************************************)
MaxDirectives == 2  \* most directives in one build file

Packages == {RootPackage, "a", "b", "a/c"}

CoordA == <<"g", ":", "a">>
CoordB == <<"g", ":", "b">>

\* @maven//:g_a and @maven//:g_b
MavenLabelA == <<"@", "maven", "//:", "g", "_", "a">>
MavenLabelB == <<"@", "maven", "//:", "g", "_", "b">>

LockFileMain ==
    [artifacts |-> (CoordA :> {JarClassifier, SourcesClassifier})
                   @@ (CoordB :> {JarClassifier, TestsClassifier})
                   @@ (ScalaLibrary :> {JarClassifier}),
     packages |-> (CoordA :> {<<"p">>})
                  @@ (CoordA \o JarInfix \o SourcesClassifier :> {<<"p">>, <<"s">>})
                  @@ (CoordB :> {<<"p">>, <<"q">>})
                  @@ (CoordB \o JarInfix \o TestsClassifier :> {<<"q">>})
                  @@ (ScalaLibrary :> {<<"scala">>})]

\* The tests jar has no entry under "packages"; the jar provides a package
\* that DEFAULT_PACKAGE_MAP holds too.
LockFileOther ==
    [artifacts |-> (CoordA :> {JarClassifier, TestsClassifier, SourcesClassifier}),
     packages |-> (CoordA :> {<<"p">>, <<"scala", "reflect", "runtime", "universe">>})]

LockFileChoices ==
    { (DEFAULT_MAVEN_INSTALL_FILE :> LockFileMain) @@ ("other.json" :> LockFileOther),
      (DEFAULT_MAVEN_INSTALL_FILE :> LockFileMain) }

Directives ==
    { [Key |-> JavaExcludeArtifact, Value |-> MavenLabelA],
      [Key |-> JavaMavenInstallFile, Value |-> "other.json"],
      [Key |-> JavaMavenRepositoryName, Value |-> "other"],
      [Key |-> ScalaForcedTransitiveDeps, Value |-> <<MavenLabelA, <<MavenLabelB>>>>],
      [Key |-> ScalaForcedTransitiveDeps, Value |-> <<MavenLabelA>>] }

\* f: nil, or a build file with its directives
RuleFiles ==
    {[exists |-> FALSE, Directives |-> <<>>]}
        \cup {[exists |-> TRUE, Directives |-> ds] : ds \in SeqsUpTo(Directives, MaxDirectives)}

InitConfig ==
    /\ jvmConfigs = EmptyTable
    /\ treesets = <<DEFAULT_ARTIFACT_EXCLUDES>>
    /\ forcedDepsMaps = <<DEFAULT_FORCED_TRANSITIVE_DEPS>>
    /\ installs = <<>>
    /\ mavenInstallCache = EmptyTable
    /\ lockFiles \in LockFileChoices
    /\ configureCalls = <<>>
    /\ parseCalls = <<>>
    /\ configFatal = "none"
    /\ LabelIdle
    /\ ResolverIdle
    /\ ParserIdle

NextConfig == \E rel \in Packages : \E f \in RuleFiles : Configure(rel, f)

SpecConfig == InitConfig /\ [][NextConfig]_vars

(***************************************************************************)
(* Properties of the configuration and of the maven install data.           *)
(***************************************************************************)

\* The first call of ParseMavenInstall for the path of call i.
FirstCallFor(i) ==
    CHOOSE j \in 1..Len(parseCalls) :
        /\ parseCalls[j].path = parseCalls[i].path
        /\ \A k \in 1..(j - 1) : parseCalls[k].path /= parseCalls[i].path

\* C12: of the calls of ParseMavenInstall for one path only the first opens
\* and decodes the lock-file; it stores what it built from its own prefix
\* and exclusions under the path, and every call for the path returns that
\* one object, whatever prefix and exclusions it passes.
C12_ParsedOncePerPath ==
    \A i \in 1..Len(parseCalls) :
        LET call == parseCalls[i]
            first == parseCalls[FirstCallFor(i)]
        IN /\ call.opened <=> FirstCallFor(i) = i
           /\ call.result = first.result
           /\ call.path \in DOMAIN mavenInstallCache
           /\ mavenInstallCache[call.path] = first.result
           /\ installs[first.result] =
                BuildMavenInstallData(lockFiles[call.path], first.prefix, first.excludes)

\* A later call for the same path with another prefix and other exclusions.
C12_Witness ==
    \E i, j \in 1..Len(parseCalls) :
        /\ i < j
        /\ parseCalls[i].path = parseCalls[j].path
        /\ parseCalls[i].prefix /= parseCalls[j].prefix
        /\ parseCalls[i].excludes /= parseCalls[j].excludes
        /\ parseCalls[j].result = parseCalls[i].result

ForcedOf(d) == forcedDepsMaps[jvmConfigs[d].ForcedTransitiveDeps]

ExcludedOf(d) == treesets[jvmConfigs[d].excludedArtifacts]

\* The same two in the state a step leads to.
ForcedAfter(d) == forcedDepsMaps'[jvmConfigs'[d].ForcedTransitiveDeps]

ExcludedAfter(d) == treesets'[jvmConfigs'[d].excludedArtifacts]

\* C13: a Configure call for package d leaves the forced-dependency map and
\* the exclusions of every other package as they were; a package created by
\* the call has a map of its own, which holds the keys of its parent's map,
\* and exclusions that include its parent's.
C13_ChildIsolated ==
    [][LET d == configureCalls'[Len(configureCalls')]
       IN /\ \A e \in DOMAIN jvmConfigs \ {d} :
                /\ ForcedAfter(e) = ForcedOf(e)
                /\ ExcludedAfter(e) = ExcludedOf(e)
          /\ (d \notin DOMAIN jvmConfigs /\ d /= RootPackage /\ configFatal' = "none") =>
                /\ \A e \in DOMAIN jvmConfigs :
                        jvmConfigs'[d].ForcedTransitiveDeps /= jvmConfigs'[e].ForcedTransitiveDeps
                /\ DOMAIN ForcedOf(ParentForPackage(d)) \subseteq DOMAIN ForcedAfter(d)
                /\ ExcludedOf(ParentForPackage(d)) \subseteq ExcludedAfter(d)
      ]_vars

\* Of two siblings one has a forced-deps directive and an exclusion: the map
\* and the exclusions of the parent and of the other sibling are as before.
C13_Witness ==
    /\ {RootPackage, "a", "b"} \subseteq DOMAIN jvmConfigs
    /\ configFatal = "none"
    /\ ForcedOf("a") = (MavenLabelA :> <<MavenLabelB>>)
    /\ ForcedOf(RootPackage) = EmptyTable
    /\ ForcedOf("b") = EmptyTable
    /\ MavenLabelA \in ExcludedOf("a")
    /\ MavenLabelA \notin ExcludedOf(RootPackage)
    /\ MavenLabelA \notin ExcludedOf("b")

\* The key under "packages" that C15 names for a classifier.
ClassifierKey(artifact, classifier) ==
    IF classifier = JarClassifier THEN artifact ELSE artifact \o JarInfix \o classifier

\* The labels that C15 allows a lock-file to yield under a prefix.
YieldedLabels(installJSON, prefix) ==
    {jarToLabel(ClassifierKey(ac[1], ac[2]), prefix) :
        ac \in {x \in (DOMAIN installJSON.artifacts) \X
                            {JarClassifier, TestsClassifier, SourcesClassifier} :
                    /\ x[2] \in installJSON.artifacts[x[1]]
                    /\ x[2] /= SourcesClassifier
                    /\ ClassifierKey(x[1], x[2]) \in DOMAIN installJSON.packages}}

\* The labels of the sources jars of a lock-file.
SourcesLabels(installJSON, prefix) ==
    {jarToLabel(a \o JarInfix \o SourcesClassifier, prefix) :
        a \in {x \in DOMAIN installJSON.artifacts : SourcesClassifier \in installJSON.artifacts[x]}}

\* C15: in the data built from a lock-file no label of a sources jar is in
\* ArtifactLabels or in a PackageMapping value; every label of
\* ArtifactLabels, and of a PackageMapping value that is not a default, is
\* the label of a "jar" classifier's bare coordinate or of
\* <coordinate>:jar:<classifier>, with that key present under "packages".
C15_SourcesNeverYieldLabel ==
    \A i \in 1..Len(parseCalls) :
        parseCalls[i].opened =>
            LET call == parseCalls[i]
                data == installs[call.result]
                mapped == UNION {data.PackageMapping[pkg] : pkg \in DOMAIN data.PackageMapping}
                lockMapped == UNION {data.PackageMapping[pkg] :
                                        pkg \in DOMAIN data.PackageMapping \ DOMAIN DEFAULT_PACKAGE_MAP}
            IN /\ SourcesLabels(lockFiles[call.path], call.prefix)
                    \cap (data.ArtifactLabels \cup mapped) = {}
               /\ data.ArtifactLabels \subseteq YieldedLabels(lockFiles[call.path], call.prefix)
               /\ lockMapped \subseteq YieldedLabels(lockFiles[call.path], call.prefix)

\* A lock-file whose sources jar has packages of its own, next to a tests
\* jar that yields its label.
C15_Witness ==
    \E i \in 1..Len(parseCalls) :
        /\ parseCalls[i].opened
        /\ lockFiles[parseCalls[i].path] = LockFileMain
        /\ jarToLabel(CoordB \o JarInfix \o TestsClassifier, parseCalls[i].prefix)
                \in installs[parseCalls[i].result].ArtifactLabels
        /\ <<"s">> \notin DOMAIN installs[parseCalls[i].result].PackageMapping

(***************************************************************************)
(* The import reader of the Scala parser: readImportDeclaration and         *)
(* readNamespaceSelectors.  Both return a set of dotted names or end the    *)
(* process with os.Exit(1); a result is [exit, imports].                    *)
(***************************************************************************)
IsIdentifier(nodeCType) == nodeCType \in {"identifier", "operator_identifier"}

\* node.ChildByFieldName(field)
ChildByFieldName(node, field) ==
    LET at == {i \in 1..Len(node.Children) : node.Children[i].Field = field}
    IN  IF at = {} THEN NoNode
        ELSE node.Children[CHOOSE i \in at : \A j \in at : i <= j]

Exited == [exit |-> TRUE, imports |-> {}]

Returned(set) == [exit |-> FALSE, imports |-> set]

\* The name an arrow_renamed_identifier adds: the text of its name field.
RenamedSelectorName_Alias(nodeC) == ChildByFieldName(nodeC, "alias").Content

RenamedSelectorName(nodeC) == ChildByFieldName(nodeC, "name").Content

IsSelector(nodeCType) ==
    \/ IsIdentifier(nodeCType)
    \/ nodeCType \in {"namespace_wildcard", "arrow_renamed_identifier"}

\* What one child of a namespace_selectors node adds to the set.
SelectorName(nodeC) ==
    CASE IsIdentifier(nodeC.Type) -> nodeC.Content
      [] nodeC.Type = "namespace_wildcard" -> <<"_">>
      [] nodeC.Type = "arrow_renamed_identifier" -> RenamedSelectorName(nodeC)

readNamespaceSelectors(node) ==
    IF node.Type /= "namespace_selectors" THEN Exited
    ELSE IF \E c \in 1..Len(NamedChildren(node)) : ~IsSelector(NamedChildren(node)[c].Type)
    THEN Exited
    ELSE Returned({SelectorName(NamedChildren(node)[c]) : c \in 1..Len(NamedChildren(node))})

\* importBuilder after a path segment is written to it.
WriteSegment(importBuilder, content) ==
    IF Len(importBuilder) > 0 THEN importBuilder \o <<".">> \o content ELSE content

\* importBuilder after the wildcard suffix is written to it.
WriteWildcard_NoDot(importBuilder) == importBuilder \o <<"_">>

WriteWildcard(importBuilder) == importBuilder \o <<".", "_">>

\* The loop of readImportDeclaration from child c on.
RECURSIVE readImportChildren(_, _, _)
readImportChildren(node, c, importBuilder) ==
    IF c > Len(NamedChildren(node)) THEN Returned({importBuilder})
    ELSE LET nodeC == NamedChildren(node)[c]
         IN  CASE IsIdentifier(nodeC.Type) ->
                    readImportChildren(node, c + 1, WriteSegment(importBuilder, nodeC.Content))
               [] nodeC.Type = "namespace_selectors" ->
                    LET importPackage == importBuilder \o <<".">>
                        symbols == readNamespaceSelectors(nodeC)
                    IN  IF symbols.exit THEN Exited
                        ELSE Returned({importPackage \o sym : sym \in symbols.imports})
               [] nodeC.Type = "namespace_wildcard" ->
                    Returned({WriteWildcard(importBuilder)})
               [] nodeC.Type \in {"comment", "block_comment"} ->
                    readImportChildren(node, c + 1, importBuilder)
               [] OTHER -> Exited

readImportDeclaration(node) ==
    IF node.Type /= "import_declaration" THEN Exited
    ELSE readImportChildren(node, 1, <<>>)

(***************************************************************************)
(* Import declarations: a path of identifiers and comments, then nothing, a *)
(* wildcard, a selector group or a node the reader does not expect.         *)
(***************************************************************************)
MaxPathLen == 2
MaxSelectors == 2

Identifier(content) == Leaf("identifier", content)

Wildcard == Leaf("namespace_wildcard", <<"_">>)

\* name => alias
Renamed(name, alias) ==
    Node("arrow_renamed_identifier", "", name \o <<" ", "=", ">", " ">> \o alias,
         <<InField("name", Identifier(name)), InField("alias", Identifier(alias))>>)

PathNodes ==
    {InField("path", Identifier(<<"a">>)), InField("path", Identifier(<<"b">>)),
     Leaf("comment", <<"/", "/">>)}

SelectorNodes ==
    {Identifier(<<"C">>), Wildcard, Renamed(<<"D">>, <<"E">>), Leaf("ERROR", <<>>)}

Selectors(children) == Node("namespace_selectors", "", <<>>, children)

ImportEndings ==
    {<<>>, <<Wildcard>>, <<Leaf("stable_identifier", <<>>)>>}
        \cup {<<Selectors(sel)>> : sel \in SeqsUpTo(SelectorNodes, MaxSelectors)}

ImportDeclaration(children) == Node("import_declaration", "", <<>>, children)

ImportDeclarations ==
    {ImportDeclaration(path \o ending) :
        path \in SeqsUpTo(PathNodes, MaxPathLen), ending \in ImportEndings}

InitImport ==
    /\ importNode \in ImportDeclarations
    /\ imports = {}
    /\ importStatus = "none"
    /\ sourceCode = <<>>
    /\ ScanIdle
    /\ ParseIdle
    /\ CacheIdle
    /\ ConfigIdle
    /\ LabelIdle
    /\ ResolverIdle

\* importedSymbols := readImportDeclaration(nodeI, sourceCode)
CallReadImportDeclaration ==
    /\ importStatus = "none"
    /\ \E read \in {readImportDeclaration(importNode)} :
        /\ imports' = read.imports
        /\ importStatus' = IF read.exit THEN "exit" ELSE "returned"
    /\ UNCHANGED <<resolverVars, configVars, labelVars, importNode, sourceCode,
                   scanVars, parseVars, cacheVars>>

NextImport == CallReadImportDeclaration

SpecImport == InitImport /\ [][NextImport]_vars

(***************************************************************************)
(* Properties of the import reader.                                         *)
(***************************************************************************)
\* The segments joined by dots, from the right.
RECURSIVE JoinDots(_)
JoinDots(segments) ==
    IF Len(segments) = 1 THEN Head(segments)
    ELSE Head(segments) \o <<".">> \o JoinDots(Tail(segments))

\* The texts of the identifiers among the children of a node, in order.
PathSegments(node) ==
    LET ids == SelectSeq(node.Children, LAMBDA n : IsIdentifier(n.Type))
    IN  [i \in 1..Len(ids) |-> ids[i].Content]

LastChild(node) == node.Children[Len(node.Children)]

\* import <path>._ : at least one path segment, then a wildcard.
EndsWithWildcard(node) ==
    /\ PathSegments(node) /= <<>>
    /\ LastChild(node).Type = "namespace_wildcard"

\* import <path>.{...} : at least one path segment, then a selector group.
EndsWithSelectors(node) ==
    /\ PathSegments(node) /= <<>>
    /\ LastChild(node).Type = "namespace_selectors"

ImportABWildcard ==
    ImportDeclaration(<<InField("path", Identifier(<<"a">>)),
                        InField("path", Identifier(<<"b">>)), Wildcard>>)

ImportABSelectors(sel) ==
    ImportDeclaration(<<InField("path", Identifier(<<"a">>)),
                        InField("path", Identifier(<<"b">>)), Selectors(sel)>>)

\* C16: an import declaration whose path is followed by a wildcard returns
\* exactly one entry, the dotted path followed by "._"; a wildcard inside a
\* selector group adds the dotted path followed by "._" to the set returned.
C16_WildcardImport ==
    /\ importStatus /= "none" /\ EndsWithWildcard(importNode)
        => /\ importStatus = "returned"
           /\ imports = {JoinDots(PathSegments(importNode)) \o <<".", "_">>}
    /\ importStatus = "returned" /\ EndsWithSelectors(importNode)
       /\ (\E sel \in Range(LastChild(importNode).Children) : sel.Type = "namespace_wildcard")
        => JoinDots(PathSegments(importNode)) \o <<".", "_">> \in imports

\* C16 witness: import a.b._ has returned {"a.b._"}, or import a.b.{_} has.
C16_Witness ==
    /\ importStatus = "returned"
    /\ importNode \in {ImportABWildcard, ImportABSelectors(<<Wildcard>>)}
    /\ imports = {<<"a", ".", "b", ".", "_">>}

\* The name under which a selector makes a symbol visible in the file.
TargetName(sel) ==
    IF sel.Type = "arrow_renamed_identifier" THEN ChildByFieldName(sel, "alias").Content
    ELSE SelectorName(sel)

\* The name a selector imports from the package.
SourceName(sel) ==
    IF sel.Type = "arrow_renamed_identifier" THEN ChildByFieldName(sel, "name").Content
    ELSE SelectorName(sel)

PRIVATE == <<"p", "r", "i", "v", "a", "t", "e">>
PROTECTED == <<"p", "r", "o", "t", "e", "c", "t", "e", "d">>
ABSTRACT == <<"a", "b", "s", "t", "r", "a", "c", "t">>
FINAL == <<"f", "i", "n", "a", "l">>
CLASS == <<"c", "l", "a", "s", "s">>
OBJECT == <<"o", "b", "j", "e", "c", "t">>
TRAIT == <<"t", "r", "a", "i", "t">>
TYPE == <<"t", "y", "p", "e">>
VAL == <<"v", "a", "l">>
VAR == <<"v", "a", "r">>
EXTENDS_ == <<"e", "x", "t", "e", "n", "d", "s">>

\* \w of the regular expressions: [0-9A-Za-z_]
WordChars ==
    {"a", "b", "c", "d", "e", "f", "g", "h", "i", "j", "k", "l", "m",
     "n", "o", "p", "q", "r", "s", "t", "u", "v", "w", "x", "y", "z",
     "A", "B", "C", "D", "E", "F", "G", "H", "I", "J", "K", "L", "M",
     "N", "O", "P", "Q", "R", "S", "T", "U", "V", "W", "X", "Y", "Z",
     "0", "1", "2", "3", "4", "5", "6", "7", "8", "9", "_"}

\* \s of the regular expressions: [\t\n\f\r ]
SpaceChars == {" ", "\t", "\n", "\f", "\r"}

IsWordChar(s, i) == i >= 1 /\ i <= Len(s) /\ s[i] \in WordChars

IsSpaceChar(s, i) == i >= 1 /\ i <= Len(s) /\ s[i] \in SpaceChars

\* \b before position i: exactly one of its two neighbours is a word character.
AtWordBoundary(s, i) == IsWordChar(s, i - 1) /= IsWordChar(s, i)

\* The position after the longest run of \s that starts at i.
RECURSIVE SkipSpaces(_, _)
SkipSpaces(s, i) == IF IsSpaceChar(s, i) THEN SkipSpaces(s, i + 1) ELSE i

\* The position after the longest run of \w that starts at i.
RECURSIVE SkipWord(_, _)
SkipWord(s, i) == IF IsWordChar(s, i) THEN SkipWord(s, i + 1) ELSE i

ACCESS_MODIFIERS == {PRIVATE, PROTECTED}

\* ACCESS_MODIFIER_REGEX.MatchString(line) for \b(?:private|protected)\b
lineHasAccessModifier_Never(line) == FALSE

lineHasAccessModifier(line) ==
    \E i \in 1..Len(line) : \E m \in ACCESS_MODIFIERS :
        /\ HasPrefixAt(line, i, m)
        /\ AtWordBoundary(line, i)
        /\ AtWordBoundary(line, i + Len(m))

DEFINITION_MODIFIERS == {ABSTRACT, FINAL}

DEFINITION_KEYWORDS == {CLASS, OBJECT, TRAIT, TYPE, VAL, VAR}

NoMatch == [matched |-> FALSE, name |-> <<>>]

\* The rest of DEFINITION_REGEX from position i on:
\* (?:class|object|trait|type|val|var)\s+(\w+)\s+.*
\* The runs are the longest ones: a shorter \s+ is followed by a space and a
\* shorter \w+ by a word character, neither of which the next item accepts.
MatchDefinitionAt(line, i) ==
    IF \E kw \in DEFINITION_KEYWORDS : HasPrefixAt(line, i, kw)
    THEN LET kw == CHOOSE k \in DEFINITION_KEYWORDS : HasPrefixAt(line, i, k)
             a == i + Len(kw)
             b == SkipSpaces(line, a)
             c == SkipWord(line, b)
         IN  IF b > a /\ c > b /\ IsSpaceChar(line, c)
             THEN [matched |-> TRUE, name |-> SubSeq(line, b, c - 1)]
             ELSE NoMatch
    ELSE NoMatch

\* DEFINITION_REGEX.FindStringSubmatch(line): the optional group
\* (?:(?:abstract|final)\s+)? is tried first, then skipped.
FindStringSubmatch(line) ==
    LET withModifier ==
            IF \E mod \in DEFINITION_MODIFIERS : HasPrefixAt(line, 1, mod)
            THEN LET mod == CHOOSE m \in DEFINITION_MODIFIERS : HasPrefixAt(line, 1, m)
                     a == 1 + Len(mod)
                     b == SkipSpaces(line, a)
                 IN  IF b > a THEN MatchDefinitionAt(line, b) ELSE NoMatch
            ELSE NoMatch
    IN  IF withModifier.matched THEN withModifier ELSE MatchDefinitionAt(line, 1)

\* bufio.ScanLines: dropCR
dropCR(data) ==
    IF Len(data) > 0 /\ data[Len(data)] = "\r" THEN SubSeq(data, 1, Len(data) - 1)
    ELSE data

\* The lines bufio.Scanner delivers with bufio.ScanLines, in order.
RECURSIVE ScanLines(_)
ScanLines(data) ==
    IF data = <<>> THEN <<>>
    ELSE IF \E i \in 1..Len(data) : data[i] = "\n"
    THEN LET i == CHOOSE k \in 1..Len(data) :
                    data[k] = "\n" /\ \A j \in 1..(k - 1) : data[j] /= "\n"
         IN  <<dropCR(SubSeq(data, 1, i - 1))>> \o ScanLines(SubSeq(data, i + 1, Len(data)))
    ELSE <<dropCR(data)>>

scanForDefinedSymbols(source) ==
    {FindStringSubmatch(line).name :
        line \in {l \in Range(ScanLines(source)) :
                    ~lineHasAccessModifier(l) /\ FindStringSubmatch(l).matched}}

(***************************************************************************)
(* Source texts for the scanner: up to MaxSourcePieces pieces in a row.     *)
(***************************************************************************)
MaxSourcePieces == 4

SourcePieces ==
    {FINAL \o <<" ">>, CLASS \o <<" ">>, PRIVATE \o <<" ">>, <<"F", "o", "o", " ">>,
     <<"F", "o", "o">>, <<"(">>, <<" ">>, <<"\n">>, <<"\r">>}

\* class Foo extends Bar
ClassFooExtendsBar ==
    CLASS \o <<" ", "F", "o", "o", " ">> \o EXTENDS_ \o <<" ", "B", "a", "r">>

\* class Baz private (x)
ClassBazPrivate ==
    CLASS \o <<" ", "B", "a", "z", " ">> \o PRIVATE \o <<" ", "(", "x", ")">>

\* class Qux extends Bar, indented
IndentedClassQux ==
    <<" ", " ">> \o CLASS \o <<" ", "Q", "u", "x", " ">> \o EXTENDS_ \o <<" ", "B", "a", "r">>

\* A text of three lines: a definition, one with an access token, an indented one.
DegradedSource ==
    ClassFooExtendsBar \o <<"\n">> \o ClassBazPrivate \o <<"\n">> \o IndentedClassQux

SourceTexts ==
    {Flatten(ps) : ps \in SeqsUpTo(SourcePieces, MaxSourcePieces)} \cup {DegradedSource}

InitScan ==
    /\ sourceCode \in SourceTexts
    /\ definedSymbols = {}
    /\ scanStatus = "none"
    /\ ImportIdle
    /\ ParseIdle
    /\ CacheIdle
    /\ ConfigIdle
    /\ LabelIdle
    /\ ResolverIdle

\* result.ExportedSymbols = scanForDefinedSymbols(sourceCode)
CallScanForDefinedSymbols ==
    /\ scanStatus = "none"
    /\ definedSymbols' = scanForDefinedSymbols(sourceCode)
    /\ scanStatus' = "returned"
    /\ UNCHANGED <<resolverVars, configVars, labelVars, importVars, sourceCode, parseVars,
                   cacheVars>>

NextScan == CallScanForDefinedSymbols

SpecScan == InitScan /\ [][NextScan]_vars

(***************************************************************************)
(* Properties of the fallback line scanner.                                 *)
(***************************************************************************)
\* The lines of a text: what lies between two line ends, without a final "\r".
TextLines(text) ==
    {dropCR(SubSeq(text, i, j)) : <<i, j>> \in
        {<<i, j>> \in (1..(Len(text) + 1)) \X (0..Len(text)) :
            /\ i <= j + 1
            /\ i = 1 \/ text[i - 1] = "\n"
            /\ j = Len(text) \/ text[j + 1] = "\n"
            /\ \A k \in i..j : text[k] /= "\n"}}

AllSpace(s) == s /= <<>> /\ \A k \in 1..Len(s) : s[k] \in SpaceChars

AllWord(s) == s /= <<>> /\ \A k \in 1..Len(s) : s[k] \in WordChars

\* h is [abstract|final] (class|object|trait|type|val|var) with white space
\* after each word, and starts at column zero.
IsDefinitionHead(h) ==
    \E kw \in DEFINITION_KEYWORDS : \E i \in 0..Len(h) :
        /\ HasPrefixAt(h, i + 1, kw)
        /\ AllSpace(SubSeq(h, i + 1 + Len(kw), Len(h)))
        /\ \/ i = 0
           \/ \E mod \in DEFINITION_MODIFIERS :
                /\ HasPrefixAt(h, 1, mod)
                /\ AllSpace(SubSeq(h, 1 + Len(mod), i))

\* The identifiers a line of the form
\* [abstract|final] (class|object|trait|type|val|var) <identifier> ...
\* defines, whatever follows the identifier.
DefinedBy(line) ==
    {SubSeq(line, p, q) : <<p, q>> \in
        {<<p, q>> \in (1..Len(line)) \X (1..Len(line)) :
            /\ p <= q
            /\ ~IsWordChar(line, q + 1)
            /\ AllWord(SubSeq(line, p, q))
            /\ IsDefinitionHead(SubSeq(line, 1, p - 1))}}

\* The same, for an identifier that white space follows.
DefinedBeforeSpace(line) ==
    {SubSeq(line, p, q) : <<p, q>> \in
        {<<p, q>> \in (1..Len(line)) \X (1..Len(line)) :
            /\ p <= q
            /\ IsSpaceChar(line, q + 1)
            /\ AllWord(SubSeq(line, p, q))
            /\ IsDefinitionHead(SubSeq(line, 1, p - 1))}}

\* The line contains the token private or protected.
HasAccessToken(line) ==
    \E i \in 1..Len(line) : \E j \in i..Len(line) :
        /\ SubSeq(line, i, j) \in ACCESS_MODIFIERS
        /\ ~IsWordChar(line, i - 1)
        /\ ~IsWordChar(line, j + 1)

\* C19 as stated: the scanner reports the identifier of every non-indented
\* line of the form [abstract|final] (class|object|trait|type|val|var)
\* <identifier> ... that holds no token private or protected, and nothing
\* else.
C19_EveryDefinitionLine ==
    scanStatus = "returned"
        => definedSymbols = UNION {DefinedBy(line) :
                                    line \in {l \in TextLines(sourceCode) : ~HasAccessToken(l)}}

\* C19 amended: the scanner reports exactly the identifiers of the
\* non-indented lines that hold no token private or protected and have the
\* form [abstract|final] (class|object|trait|type|val|var) <identifier>
\* with white space after the identifier; a definition line whose identifier
\* ends the line or is followed by another character, an indented line and a
\* line with an access token add nothing.
C19_DefinitionLineBeforeSpace ==
    scanStatus = "returned"
        => definedSymbols = UNION {DefinedBeforeSpace(line) :
                                    line \in {l \in TextLines(sourceCode) : ~HasAccessToken(l)}}

\* C19 witness: of the three lines "class Foo extends Bar", "class Baz
\* private (x)" and an indented "class Qux extends Bar" the scanner has
\* reported Foo and nothing else.
C19_Witness ==
    /\ scanStatus = "returned"
    /\ sourceCode = DegradedSource
    /\ TextLines(sourceCode) = {ClassFooExtendsBar, ClassBazPrivate, IndentedClassQux}
    /\ definedSymbols = {<<"F", "o", "o">>}

(***************************************************************************)
(* The symbol walk of the Scala parser: recursivelyParseSymbols and the     *)
(* handlers it calls.  A node of the tree under the root is addressed by    *)
(* its path, the child positions from the root down, which gives access to  *)
(* its parent and its next sibling.  A walk returns the SymbolData together *)
(* with the nodes recursivelyParseSymbols was called for, in order, and     *)
(* whether a nil node was dereferenced on the way.                          *)
(***************************************************************************)
\* The path of no node (Go's nil).
NilPath == <<0>>

RECURSIVE NodeAt(_, _)
NodeAt(root, path) ==
    IF path = <<>> THEN root ELSE NodeAt(root.Children[Head(path)], Tail(path))

\* node.Parent()
ParentPath(path) == SubSeq(path, 1, Len(path) - 1)

\* node.NextSibling(): the next child of the parent, named or not.
NextSibling(root, path) ==
    IF path = <<>> THEN NilPath
    ELSE LET last == path[Len(path)]
         IN  IF last < Len(NodeAt(root, ParentPath(path)).Children)
             THEN ParentPath(path) \o <<last + 1>>
             ELSE NilPath

\* The positions of the named children among the children.
NamedIndices(node) ==
    SelectSeq([i \in 1..Len(node.Children) |-> i], LAMBDA i : node.Children[i].Named)

\* The path of node.ChildByFieldName(field).
FieldPath(root, path, field) ==
    LET node == NodeAt(root, path)
        at == {i \in 1..Len(node.Children) : node.Children[i].Field = field}
    IN  IF at = {} THEN NilPath ELSE path \o <<CHOOSE i \in at : \A j \in at : i <= j>>

getLoneChild(node, childType) ==
    LET named == NamedChildren(node)
        at == {i \in 1..Len(named) : named[i].Type = childType}
    IN  IF at = {} THEN NoNode ELSE named[CHOOSE i \in at : \A j \in at : i <= j]

nodeHasAccessModifier(node) ==
    /\ getLoneChild(node, "modifiers") /= NoNode
    /\ getLoneChild(getLoneChild(node, "modifiers"), "access_modifier") /= NoNode

EmptySymbolData ==
    [FullyQualifiedNames |-> {}, ExportedSymbols |-> {}, visited |-> <<>>, crashed |-> FALSE]

SingleNameData(name) == [EmptySymbolData EXCEPT !.FullyQualifiedNames = {name}]

ExportedData(name) == [EmptySymbolData EXCEPT !.ExportedSymbols = {name}]

\* A nil node was dereferenced: the process panics.
CrashedData == [EmptySymbolData EXCEPT !.crashed = TRUE]

\* recursivelyParseSymbols was called for the node at path.
VisitedData(path) == [EmptySymbolData EXCEPT !.visited = <<path>>]

Union(s, other) ==
    [FullyQualifiedNames |-> s.FullyQualifiedNames \cup other.FullyQualifiedNames,
     ExportedSymbols |-> s.ExportedSymbols \cup other.ExportedSymbols,
     visited |-> s.visited \o other.visited,
     crashed |-> s.crashed \/ other.crashed]

\* namespace *string: nil, or a pointer to a prefix.
NilNamespace == [isNil |-> TRUE, text |-> <<>>]

Namespace(text) == [isNil |-> FALSE, text |-> text]

ROOT_PREFIX == <<"_", "r", "o", "o", "t", "_">>

NotRead == [name |-> <<>>, ok |-> FALSE, crashed |-> FALSE]

RECURSIVE readFieldExpression(_)
readFieldExpression(node) ==
    LET fieldNode == ChildByFieldName(node, "field")
        child == ChildByFieldName(node, "value")
        name == fieldNode.Content
    IN  IF node.Type /= "field_expression" \/ fieldNode = NoNode \/ child = NoNode
        THEN [NotRead EXCEPT !.crashed = TRUE]
        ELSE CASE child.Type = "field_expression" ->
                    LET inner == readFieldExpression(child)
                    IN  [name |-> inner.name \o <<".">> \o name, ok |-> inner.ok,
                         crashed |-> inner.crashed]
               [] child.Type = "identifier" ->
                    IF child.Content = <<>> THEN NotRead
                    ELSE IF child.Content /= ROOT_PREFIX
                    THEN [NotRead EXCEPT !.name = child.Content \o <<".">> \o name, !.ok = TRUE]
                    ELSE [NotRead EXCEPT !.name = name, !.ok = TRUE]
               [] OTHER -> NotRead

isCodeBlock(nodeType) ==
    nodeType \in {"block", "case_block", "indented_block", "indented_cases", "macro_body",
                  "template_body"}

isDefinition(nodeType) ==
    nodeType \in {"class_definition", "enum_definition", "extension_definition",
                  "function_definition", "given_definition", "object_definition",
                  "package_object", "trait_definition", "type_definition"}

isImplementationExpression(nodeType) ==
    nodeType \in {"alternative_pattern", "annotated_type", "annotation", "arguments",
                  "ascription_expression", "assignment_expression", "binding", "bindings",
                  "call_expression", "capture_pattern", "case_class_pattern",
                  "class_parameter", "class_parameters", "colon_argument", "compound_type",
                  "context_bound", "do_while_expression", "enum_body", "enumerator",
                  "enumerators", "extends_clause", "finally_clause", "for_expression",
                  "function_type", "generic_function", "generic_type", "guard",
                  "if_expression", "infix_expression", "infix_pattern", "infix_type",
                  "instance_expression", "interpolated_string",
                  "interpolated_string_expression", "interpolation", "lambda_expression",
                  "lazy_parameter_type", "lower_bound", "match_expression", "match_type",
                  "parameter", "parameter_types", "parameters", "parenthesized_expression",
                  "postfix_expression", "prefix_expression", "projected_type",
                  "quote_expression", "refinement", "return_expression", "singleton_type",
                  "structural_type", "throw_expression", "try_expression",
                  "tuple_expression", "tuple_pattern", "tuple_type", "type_arguments",
                  "type_case_clause", "type_parameters", "typed_pattern", "upper_bound",
                  "view_bound", "while_expression"}

\* The fields parseDefinition walks after the body, in order.
DefinitionFields(nodeType) ==
    CASE nodeType \in {"class_definition", "trait_definition"} ->
            <<"class_parameters", "derive", "extend", "type_parameters">>
      [] nodeType = "extension_definition" -> <<"parameters", "type_parameters">>
      [] nodeType = "function_definition" -> <<"parameters", "return_type", "type_parameters">>
      [] nodeType = "given_definition" ->
            <<"arguments", "parameters", "return_type", "type_parameters">>
      [] nodeType \in {"object_definition", "package_object"} -> <<"derive", "extend">>
      [] nodeType = "type_definition" -> <<"bound", "type", "type_parameters">>
      [] OTHER -> <<>>

\* The body of a definition: its body field, else its next sibling when that
\* is a block, else, for a last child of an ERROR node, the next sibling of
\* that ERROR node when that is a block.
BodyPath(root, path) ==
    LET bodyField == FieldPath(root, path, "body")
        nextNode == NextSibling(root, path)
        parentSibling == NextSibling(root, ParentPath(path))
    IN  IF bodyField /= NilPath THEN bodyField
        ELSE IF nextNode /= NilPath
        THEN (IF NodeAt(root, nextNode).Type = "block" THEN nextNode ELSE NilPath)
        ELSE IF /\ NodeAt(root, ParentPath(path)).Type = "ERROR"
                /\ parentSibling /= NilPath
                /\ NodeAt(root, parentSibling).Type = "block"
        THEN parentSibling
        ELSE NilPath

\* The paths of the named children of the node at path.
ChildPaths(root, path) ==
    LET named == NamedIndices(NodeAt(root, path))
    IN  [k \in 1..Len(named) |-> path \o <<named[k]>>]

\* The paths of the named children of a body that are no blocks.
BodyChildPaths(root, body) ==
    SelectSeq(ChildPaths(root, body), LAMBDA child : NodeAt(root, child).Type /= "block")

\* Variant: an access modifier does not keep a name from being exported.
Exports_DespiteModifier(namespace, node) == ~namespace.isNil

\* A definition or variable definition is exported.
Exports(namespace, node) == ~namespace.isNil /\ ~nodeHasAccessModifier(node)

RECURSIVE recursivelyParseSymbols(_, _, _)
RECURSIVE WalkEach(_, _, _)
RECURSIVE parseDefinition(_, _, _)
RECURSIVE parseVariableDefinition(_, _, _)

\* recursivelyParseSymbols for each path in turn, the results united.
WalkEach(root, paths, namespace) ==
    IF paths = <<>> THEN EmptySymbolData
    ELSE Union(recursivelyParseSymbols(root, Head(paths), namespace),
               WalkEach(root, Tail(paths), namespace))

parseChildren(root, path, namespace) ==
    WalkEach(root, ChildPaths(root, path), namespace)

parseDefinition(root, path, namespace) ==
    LET node == NodeAt(root, path)
        nodeType == node.Type
        body == BodyPath(root, path)
        name == ChildByFieldName(node, "name")
        sym == namespace.text \o name.Content
        own == IF Exports(namespace, node)
               THEN (IF name = NoNode THEN CrashedData ELSE ExportedData(sym))
               ELSE EmptySymbolData
        newNamespace ==
            IF Exports(namespace, node) /\ nodeType \in {"object_definition", "package_object"}
            THEN Namespace(sym \o <<".">>)
            ELSE NilNamespace
        inBody == IF body = NilPath THEN EmptySymbolData
                  ELSE WalkEach(root, BodyChildPaths(root, body), newNamespace)
        present == SelectSeq(DefinitionFields(nodeType),
                             LAMBDA f : FieldPath(root, path, f) /= NilPath)
        inFields == WalkEach(root, [k \in 1..Len(present) |-> FieldPath(root, path, present[k])],
                             NilNamespace)
    IN  IF own.crashed THEN own ELSE Union(Union(own, inBody), inFields)

parseVariableDefinition(root, path, namespace) ==
    LET node == NodeAt(root, path)
        pattern == ChildByFieldName(node, "pattern")
        own == IF Exports(namespace, node)
               THEN (IF pattern = NoNode THEN CrashedData
                     ELSE IF pattern.Type = "case_class_pattern" THEN EmptySymbolData
                     ELSE ExportedData(namespace.text \o pattern.Content))
               ELSE EmptySymbolData
    IN  IF own.crashed THEN own
        ELSE Union(own, recursivelyParseSymbols(root, FieldPath(root, path, "value"),
                                                NilNamespace))

recursivelyParseSymbols(root, path, namespace) ==
    IF path = NilPath THEN CrashedData
    ELSE LET node == NodeAt(root, path)
             nodeType == node.Type
             found ==
                CASE isDefinition(nodeType) -> parseDefinition(root, path, namespace)
                  [] nodeType \in {"val_definition", "var_definition"} ->
                        parseVariableDefinition(root, path, namespace)
                  [] \/ nodeType \in {"case_clause", "catch_clause"}
                     \/ isCodeBlock(nodeType)
                     \/ isImplementationExpression(nodeType) ->
                        parseChildren(root, path, NilNamespace)
                  [] nodeType = "ERROR" -> parseChildren(root, path, namespace)
                  [] nodeType = "field_expression" ->
                        LET used == readFieldExpression(node)
                        IN  IF used.crashed THEN CrashedData
                            ELSE IF used.ok THEN SingleNameData(used.name)
                            ELSE EmptySymbolData
                  [] nodeType = "stable_type_identifier" -> SingleNameData(node.Content)
                  [] OTHER -> EmptySymbolData
         IN  Union(VisitedData(path), found)

(***************************************************************************)
(* Parse.  The tree is what tree-sitter returns for the source; its node    *)
(* ids are addresses, so the id of a node is its path together with the     *)
(* arena the tree was allocated in, and a later tree may be allocated where *)
(* an earlier one was.                                                      *)
(***************************************************************************)
\* readPackageIdentifier(node, sourceCode, false): the loop from child c on.
RECURSIVE writePackageSegments(_, _, _)
writePackageSegments(named, c, builder) ==
    IF c > Len(named) THEN [exit |-> FALSE, text |-> builder]
    ELSE IF IsIdentifier(named[c].Type)
    THEN writePackageSegments(named, c + 1, WriteSegment(builder, named[c].Content))
    ELSE [exit |-> TRUE, text |-> <<>>]

readPackageIdentifier(node) ==
    IF node.Type /= "package_identifier" THEN [exit |-> TRUE, text |-> <<>>]
    ELSE writePackageSegments(NamedChildren(node), 1, <<>>)

\* result.Package after one more package clause.
AppendPackage(package, parsedPackage) ==
    IF package /= <<>> THEN package \o <<".">> \o parsedPackage ELSE parsedPackage

\* The ERROR nodes at and under the node at path, in document order.
RECURSIVE ErrorsUnder(_, _)
RECURSIVE ErrorsUnderEach(_, _, _)
ErrorsUnderEach(root, path, i) ==
    IF i > Len(NodeAt(root, path).Children) THEN <<>>
    ELSE ErrorsUnder(root, path \o <<i>>) \o ErrorsUnderEach(root, path, i + 1)

ErrorsUnder(root, path) ==
    (IF NodeAt(root, path).Type = "ERROR" THEN <<path>> ELSE <<>>)
        \o ErrorsUnderEach(root, path, 1)

\* queryErrors: one error for each ERROR node, here the path of the node.
queryErrors(root) == ErrorsUnder(root, <<>>)

\* Whether Parse walks a child of the root that is no package clause, import
\* declaration or block.
WalksRootChild_Always(rootIsError) == TRUE

WalksRootChild(rootIsError) == ~rootIsError

EmptyParseResult ==
    [Package |-> <<>>, Imports |-> {}, data |-> EmptySymbolData, exit |-> FALSE]

\* One round of the loop of Parse over the named children of the root.
ParseRootChild(root, i, rootIsError, result) ==
    LET nodeI == root.Children[i]
    IN  CASE nodeI.Type = "package_clause" ->
                LET parsedPackage ==
                        readPackageIdentifier(getLoneChild(nodeI, "package_identifier"))
                IN  IF parsedPackage.exit THEN [result EXCEPT !.exit = TRUE]
                    ELSE [result EXCEPT !.Package = AppendPackage(@, parsedPackage.text)]
          [] nodeI.Type = "import_declaration" ->
                LET importedSymbols == readImportDeclaration(nodeI)
                IN  IF importedSymbols.exit THEN [result EXCEPT !.exit = TRUE]
                    ELSE [result EXCEPT !.Imports = @ \cup importedSymbols.imports]
          [] nodeI.Type = "block" -> result
          [] OTHER ->
                IF WalksRootChild(rootIsError)
                THEN [result EXCEPT
                        !.data = Union(@, recursivelyParseSymbols(root, <<i>>, Namespace(<<>>)))]
                ELSE result

RECURSIVE ParseRootChildren(_, _, _, _)
ParseRootChildren(root, indices, rootIsError, result) ==
    IF indices = <<>> \/ result.exit THEN result
    ELSE ParseRootChildren(root, Tail(indices), rootIsError,
                           ParseRootChild(root, Head(indices), rootIsError, result))

\* checkForDoubleParsing over the nodes of one walk, in order: whether it
\* exits, given the ids seen before.
ScansTwice(seenNodes, ids) ==
    \E k \in 1..Len(ids) :
        \/ ids[k] \in seenNodes
        \/ \E j \in 1..(k - 1) : ids[j] = ids[k]

\* p.Parse(filePath, source) with the tree allocated in the given arena.
Parse(p, filePath, source, root, arena) ==
    LET rootIsError == root.Type = "ERROR"
        looped == ParseRootChildren(root, NamedIndices(root), rootIsError, EmptyParseResult)
        ids == [k \in 1..Len(looped.data.visited) |-> <<arena, looped.data.visited[k]>>]
        exported == IF rootIsError THEN scanForDefinedSymbols(source)
                    ELSE looped.data.ExportedSymbols
    IN  [exit |-> \/ looped.exit
                  \/ looped.data.crashed
                  \/ p.dedupeParsing /\ ScansTwice(p.seenNodes, ids),
         result |-> [File |-> filePath,
                     Imports |-> looped.Imports,
                     Package |-> looped.Package,
                     FullyQualifiedNames |-> looped.data.FullyQualifiedNames,
                     ExportedSymbols |-> exported],
         errs |-> IF p.verboseTreeSitterErrors THEN queryErrors(root) ELSE <<>>,
         seenNodes |-> IF p.dedupeParsing THEN p.seenNodes \cup Range(ids) ELSE p.seenNodes]

(***************************************************************************)
(* Files to parse: a root, clean or ERROR, with a few top-level nodes.      *)
(***************************************************************************)
MaxRootChildren == 2

IdentA == <<"a">>
IdentB == <<"b">>
NameFoo == <<"F", "o", "o">>
NameBar == <<"B", "a", "r">>
NameBaz == <<"B", "a", "z">>

\* package a
PackageClauseA ==
    Node("package_clause", "", <<>>,
         <<Token("package"),
           InField("name", Node("package_identifier", "", IdentA, <<Identifier(IdentA)>>))>>)

\* import a.b.{<ERROR>}
ImportBadSelector == ImportABSelectors(<<Leaf("ERROR", <<>>)>>)

\* a.b.C as an expression
FieldABC ==
    Node("field_expression", "", <<>>,
         <<InField("value",
                   Node("field_expression", "", <<>>,
                        <<InField("value", Identifier(IdentA)),
                          InField("field", Identifier(IdentB))>>)),
           InField("field", Identifier(<<"C">>))>>)

\* object Foo { val x = a.b.C }
ObjectFoo ==
    Node("object_definition", "", <<>>,
         <<Token("object"),
           InField("name", Identifier(NameFoo)),
           InField("body",
                   Node("template_body", "", <<>>,
                        <<Token("{"),
                          Node("val_definition", "", <<>>,
                               <<InField("pattern", Identifier(<<"x">>)),
                                 InField("value", FieldABC)>>),
                          Token("}")>>))>>)

\* private class Bar extends a.D, its body left to the next sibling
PrivateClassBar ==
    Node("class_definition", "", <<>>,
         <<Node("modifiers", "", <<>>, <<Leaf("access_modifier", PRIVATE)>>),
           InField("name", Identifier(NameBar)),
           InField("extend",
                   Node("extends_clause", "", <<>>,
                        <<Leaf("stable_type_identifier", <<"a", ".", "D">>)>>))>>)

\* { a.E }
BlockAE == Node("block", "", <<>>, <<Leaf("stable_type_identifier", <<"a", ".", "E">>)>>)

\* class Baz inside an ERROR node
ErrorClassBaz ==
    Node("ERROR", "", <<>>,
         <<Node("class_definition", "", <<>>, <<InField("name", Identifier(NameBaz))>>)>>)

RootChildren ==
    {PackageClauseA, ImportABWildcard, ImportBadSelector, ObjectFoo, PrivateClassBar,
     BlockAE, ErrorClassBaz}

ParseTrees ==
    {Node(type, "", <<>>, children) :
        type \in {"compilation_unit", "ERROR"},
        children \in SeqsUpTo(RootChildren, MaxRootChildren)}

\* class Foo
ClassFoo == CLASS \o <<" ">> \o NameFoo

ParseSources == {DegradedSource, ClassFoo}

FilePath == "Foo.scala"

\* Where tree-sitter may allocate a tree.
Arenas == {"arena1", "arena2"}

InitParse ==
    /\ sourceCode \in ParseSources
    /\ tree \in ParseTrees
    /\ parser \in {NewParser(FALSE, verbose, dedupe) : verbose \in BOOLEAN, dedupe \in BOOLEAN}
    /\ parseLog = <<>>
    /\ ImportIdle
    /\ ScanIdle
    /\ CacheIdle
    /\ ConfigIdle
    /\ LabelIdle
    /\ ResolverIdle

\* A Parse call of the given parser instance; the call is logged.
CallParse(p, fresh) ==
    \E arena \in Arenas : \E outcome \in {Parse(p, FilePath, sourceCode, tree, arena)} :
        /\ parser' = [p EXCEPT !.seenNodes = outcome.seenNodes]
        /\ parseLog' = Append(parseLog, [fresh |-> fresh, arena |-> arena,
                                         exit |-> outcome.exit, result |-> outcome.result,
                                         errs |-> outcome.errs])
        /\ UNCHANGED <<resolverVars, configVars, labelVars, importVars, sourceCode,
                       scanVars, tree, cacheVars>>

\* The first Parse of the source.
ParseFirst ==
    /\ parseLog = <<>>
    /\ CallParse(parser, TRUE)

\* The process is still running after the first Parse.
ParsedOnce == Len(parseLog) = 1 /\ ~parseLog[1].exit

\* The same source again, with the same parser instance.
ParseAgainSameInstance ==
    /\ ParsedOnce
    /\ CallParse(parser, FALSE)

\* The same source again, with a new parser instance of the same flags.
ParseAgainFreshInstance ==
    /\ ParsedOnce
    /\ CallParse(NewParser(parser.debug, parser.verboseTreeSitterErrors,
                           parser.dedupeParsing), TRUE)

NextParse ==
    \/ ParseFirst
    \/ ParseAgainSameInstance
    \/ ParseAgainFreshInstance

SpecParse == InitParse /\ [][NextParse]_vars

(***************************************************************************)
(* Properties of Parse.                                                     *)
(***************************************************************************)
\* The named children of the root that have the given type, in order.
RootClauses(type) == SelectSeq(NamedChildren(tree), LAMBDA n : n.Type = type)

\* What the package clauses of the root name, in order.
PackageTexts ==
    [k \in 1..Len(RootClauses("package_clause")) |->
        readPackageIdentifier(getLoneChild(RootClauses("package_clause")[k],
                                           "package_identifier")).text]

\* An import declaration or a package clause of the root holds a node kind
\* its reader does not expect.
HardError ==
    \/ \E n \in Range(RootClauses("import_declaration")) : readImportDeclaration(n).exit
    \/ \E n \in Range(RootClauses("package_clause")) :
            readPackageIdentifier(getLoneChild(n, "package_identifier")).exit

\* What the fallback scanner reports for the source, line by line.
ScannedSymbols ==
    UNION {DefinedBeforeSpace(line) :
            line \in {l \in TextLines(sourceCode) : ~HasAccessToken(l)}}

\* The package and the imports of the facts are those of the root's clauses.
ClausesExtracted(facts) ==
    /\ facts.Imports =
            UNION {readImportDeclaration(n).imports : n \in Range(RootClauses("import_declaration"))}
    /\ facts.Package = IF PackageTexts = <<>> THEN <<>> ELSE JoinDots(PackageTexts)

C20_Idempotent ==
    \A i \in DOMAIN parseLog : \A j \in DOMAIN parseLog :
        ~parseLog[i].exit
            => /\ ~parseLog[j].exit
               /\ parseLog[j].result = parseLog[i].result
               /\ queryErrors(tree) = <<>> => parseLog[j].errs = <<>>

(***************************************************************************)
(* The lookup passes and the keys they query.                               *)
(***************************************************************************)

\* The pass that is about to run found neither a label nor a package entry.
FoundNothing == Len(labels') = 0 /\ ~packageExists'

\* C23: the first pass queries the normalized symbol and peels its last
\* segment exactly when it found neither a rule-index label nor a package
\* entry and the symbol contains a dot; the second pass runs exactly when the
\* first found neither, and peels the last segment exactly when it again
\* found neither, the symbol contains a dot and the last segment is not
\* entirely lowercase.  A pass that finds something leaves the symbol alone.
C23_LookupPasses ==
    [][ /\ pc = "pass1" =>
            /\ symbol = Normalize(originalSymbol)
            /\ symbol' = IF FoundNothing /\ ContainsDot(symbol) THEN Peel(symbol) ELSE symbol
            /\ (pc' = "pass2") = FoundNothing
            /\ pc' \in {"pass2", "final"}
        /\ pc = "pass2" =>
            /\ Len(labels) = 0 /\ ~packageExists
            /\ symbol' = IF FoundNothing /\ ContainsDot(symbol) /\ isSymbol(LastSegment(symbol))
                         THEN Peel(symbol) ELSE symbol
            /\ pc' = "final"
      ]_<<pc, symbol, labels, packageExists>>

\* p.a.b after both passes found nothing: b went in the first pass, and the
\* second pass kept the all-lowercase a.
C23_Witness ==
    /\ pc = "final"
    /\ originalSymbol = <<"p", "a", "b">>
    /\ symbol = <<"p", "a">>
    /\ Len(labels) = 0
    /\ ~packageExists

\* The keys the lookups of one iteration may read for the normalized symbol
\* s: s, s without its last segment, and s without its last two segments
\* when the second-to-last segment is not entirely lowercase.
QueryKeys(s) ==
    {s}
    \cup (IF Len(s) >= 2 THEN {Peel(s)} ELSE {})
    \cup (IF Len(s) >= 3 /\ isSymbol(LastSegment(Peel(s))) THEN {Peel(Peel(s))} ELSE {})

\* C25: in every iteration the symbol that the passes look up, and the one
\* the tie-break decides on, is the normalized symbol with at most two
\* trailing segments removed, the second only past a segment that is not
\* entirely lowercase; a package entry is found only at such a key, never at
\* a shorter prefix.
C25_BoundedPeeling ==
    pc \in {"pass1", "pass2", "final", "tiebreak"} =>
        /\ symbol \in QueryKeys(Normalize(originalSymbol))
        /\ packageExists =>
            \E k \in QueryKeys(Normalize(originalSymbol)) :
                /\ TableAt(PackageMapping, k, NoPackage).exists
                /\ mavenLabels = TableAt(PackageMapping, k, NoPackage).labels

\* p.a.b.c with the package p mapped: the lookups end at p.a.b and the entry
\* of p is not found.
C25_Witness ==
    /\ pc = "tiebreak"
    /\ originalSymbol = <<"p", "a", "b", "c">>
    /\ symbol = <<"p", "a", "b">>
    /\ TableAt(PackageMapping, <<"p">>, NoPackage).exists
    /\ ~packageExists

\* C26 as stated: the set ResolveJvmSymbols returns never holds the
\* requesting target's own label `from`.
C26_NeverReturnsFrom ==
    pc = "returned" => from \notin deps

(***************************************************************************)
(* The package mapping of the maven install data and its visible labels.   *)
(***************************************************************************)

\* The call of ParseMavenInstall that built the data at ref.
OpeningCall(ref) ==
    CHOOSE c \in Range(parseCalls) : c.opened /\ c.result = ref

\* The packages that the lock-file of call c provides through a label that
\* was added.
LockPackages(c) ==
    UNION {lockFiles[c.path].packages[classifiedArtifact(ac[1], ac[2])] :
            ac \in AddedPairs(lockFiles[c.path], c.prefix, c.excludes)}

\* The tie-break of ResolveJvmSymbols on the entry of pkg in data, with no
\* rule-index match, ends in the none-visible fatal error.
NoneVisible(data, pkg) ==
    /\ TieBreakArm(<<>>, TRUE, data.PackageMapping[pkg], {}) = "package"
    /\ visibleLabels(data.PackageMapping[pkg], data.ArtifactLabels) = {}

\* C27: in the data ParseMavenInstall builds, the entry of a package that the
\* lock-file provides holds labels of ArtifactLabels only, and at least one;
\* every other entry is the DEFAULT_PACKAGE_MAP entry of its package.  So an
\* entry none of whose labels is visible is a default.
C27_LockFileLabelsVisible ==
    \A ref \in 1..Len(installs) :
        LET data == installs[ref]
            lockPackages == LockPackages(OpeningCall(ref))
        IN \A pkg \in DOMAIN data.PackageMapping :
            /\ pkg \in lockPackages =>
                /\ data.PackageMapping[pkg] /= {}
                /\ data.PackageMapping[pkg] \subseteq data.ArtifactLabels
            /\ pkg \notin lockPackages =>
                /\ pkg \in DOMAIN DEFAULT_PACKAGE_MAP
                /\ data.PackageMapping[pkg] = DEFAULT_PACKAGE_MAP[pkg]
            /\ NoneVisible(data, pkg) => pkg \notin lockPackages

\* Two lock-files: one provides the package of the default itself through a
\* visible label, the other leaves it to the default, which is not visible.
C27_Witness ==
    \E ref, other \in 1..Len(installs) :
        LET universe == <<"scala", "reflect", "runtime", "universe">>
        IN /\ universe \in LockPackages(OpeningCall(ref))
           /\ installs[ref].PackageMapping[universe] /= DEFAULT_PACKAGE_MAP[universe]
           /\ installs[ref].PackageMapping[universe] \subseteq installs[ref].ArtifactLabels
           /\ universe \notin LockPackages(OpeningCall(other))
           /\ NoneVisible(installs[other], universe)

\* The maven install data of package d.
InstallOf(d) == installs[jvmConfigs[d].MavenInstall]

\* The labels of the PackageMapping values of data that come from the
\* lock-file of call c.
LockMappedLabels(data, c) ==
    UNION {data.PackageMapping[pkg] : pkg \in DOMAIN data.PackageMapping \cap LockPackages(c)}

\* C28 as stated: after any sequence of Configure calls every package's
\* config has a MavenInstall, and no label of its excludedArtifacts is in the
\* ArtifactLabels of that MavenInstall or in a PackageMapping value that
\* comes from the lock-file.
C28_ExcludedNeverCandidate ==
    configFatal = "none" =>
        \A d \in DOMAIN jvmConfigs :
            /\ jvmConfigs[d].MavenInstall /= 0
            /\ ExcludedOf(d) \cap InstallOf(d).ArtifactLabels = {}
            /\ ExcludedOf(d) \cap LockMappedLabels(InstallOf(d),
                                    OpeningCall(jvmConfigs[d].MavenInstall)) = {}

\* Without a fatal error every config ends with a MavenInstall (config.go 202-204).
EveryConfigHasMavenInstall ==
    configFatal = "none" => \A d \in DOMAIN jvmConfigs : jvmConfigs[d].MavenInstall /= 0

(***************************************************************************)
(* The parse cache (package parse): loadParsingCache and CachingParser.    *)
(* A file is read whole; tree-sitter's tree of a text and the sha256 of a   *)
(* text are given for the texts of the model.                              *)
(***************************************************************************)
MaxParseFileCalls == 3  \* most ParseFile calls of one run

\* class <name>
ClassDefinition(name) ==
    Node("class_definition", "", <<>>, <<Token("class"), InField("name", Identifier(name))>>)

\* object Foo { val x = a.b.C }
ObjectFooText ==
    OBJECT \o <<" ">> \o NameFoo \o <<" ", "{", " ">> \o VAL
        \o <<" ", "x", " ", "=", " ", "a", ".", "b", ".", "C", " ", "}">>

\* class Baz, inside text that does not parse
BrokenText == <<")", " ">> \o CLASS \o <<" ">> \o NameBaz

\* import a.b.{
BadImportText == <<"i", "m", "p", "o", "r", "t", " ", "a", ".", "b", ".", "{">>

CompilationUnit(children) == Node("compilation_unit", "", <<>>, children)

\* p.parser.ParseCtx(ctx, nil, sourceCode).RootNode() on the texts of the model
ParseCtx(text) ==
    CASE text = ClassFoo -> CompilationUnit(<<ClassDefinition(NameFoo)>>)
      [] text = ObjectFooText -> CompilationUnit(<<ObjectFoo>>)
      [] text = BrokenText -> CompilationUnit(<<ErrorClassBaz>>)
      [] text = BadImportText -> CompilationUnit(<<ImportBadSelector>>)

FileTexts == {ClassFoo, ObjectFooText, BrokenText, BadImportText}

\* hex.EncodeToString(sha256.Sum256(fileBytes)): the texts of the model have
\* digests of their own.
sha256Hex(fileBytes) ==
    CASE fileBytes = ClassFoo -> "9c1f"
      [] fileBytes = ObjectFooText -> "4be0"
      [] fileBytes = BrokenText -> "d27a"
      [] fileBytes = BadImportText -> "07e5"

\* The values of a treeset in iteration order, as json.Marshal writes them.
RECURSIVE Values(_)
Values(set) ==
    IF set = {} THEN <<>>
    ELSE LET first == CHOOSE x \in set : TRUE
         IN <<first>> \o Values(set \ {first})

\* json encoding of a ParseResult by its field tags
EncodeParseResult(r) ==
    [source |-> r.File, imports |-> Values(r.Imports), package |-> r.Package,
     fully_qualified_names |-> Values(r.FullyQualifiedNames),
     symbols |-> Values(r.ExportedSymbols)]

\* UnmarshalParsingCache: a ParseResult per hash, its sets built from the
\* arrays of the file.
UnmarshalParsingCache(interfaceMap) ==
    [hash \in DOMAIN interfaceMap |->
        [File |-> interfaceMap[hash].source,
         Imports |-> Range(interfaceMap[hash].imports),
         Package |-> interfaceMap[hash].package,
         FullyQualifiedNames |-> Range(interfaceMap[hash].fully_qualified_names),
         ExportedSymbols |-> Range(interfaceMap[hash].symbols)]]

\* loadParsingCache: nothing without a cache file or when the file was
\* written by another binary.
loadParsingCache(cacheFile, gazelleChecksum) ==
    IF ~cacheFile.exists THEN EmptyTable
    ELSE IF gazelleChecksum /= cacheFile.GazelleBinaryChecksum THEN EmptyTable
    ELSE UnmarshalParsingCache(cacheFile.Cache)

\* Variant: a result is stored whatever errors came with it.
StoresResult_Always(errs) == TRUE

\* if errs == nil || len(errs) == 0
StoresResult(errs) == Len(errs) = 0

\* The one arena: without dedupe_parsing node ids play no part.
CacheArena == "arena1"

\* cp.ParseFile(filePath); the call is logged with whether the underlying
\* parser ran and whether the process ended in it.
ParseFile(filePath) ==
    /\ Len(parseFileLog) < MaxParseFileCalls
    /\ \A i \in 1..Len(parseFileLog) : ~parseFileLog[i].exit
    /\ IF filePath \notin DOMAIN sourceFiles
       THEN /\ parseFileLog' = Append(parseFileLog,
                    [filePath |-> filePath, hash |-> "", parsed |-> FALSE, exit |-> TRUE,
                     result |-> [File |-> filePath, Imports |-> {}, Package |-> <<>>,
                                 FullyQualifiedNames |-> {}, ExportedSymbols |-> {}],
                     errs |-> <<>>])
            /\ UNCHANGED <<parsingCache, parser>>
       ELSE LET fileBytes == sourceFiles[filePath]
                hash == sha256Hex(fileBytes)
            IN IF hash \in DOMAIN parsingCache
               THEN /\ parseFileLog' = Append(parseFileLog,
                            [filePath |-> filePath, hash |-> hash, parsed |-> FALSE,
                             exit |-> FALSE, result |-> parsingCache[hash], errs |-> <<>>])
                    /\ UNCHANGED <<parsingCache, parser>>
               ELSE \E outcome \in {Parse(parser, filePath, fileBytes, ParseCtx(fileBytes),
                                          CacheArena)} :
                    /\ parser' = [parser EXCEPT !.seenNodes = outcome.seenNodes]
                    /\ parsingCache' = IF ~outcome.exit /\ StoresResult(outcome.errs)
                                       THEN (hash :> outcome.result) @@ parsingCache
                                       ELSE parsingCache
                    /\ parseFileLog' = Append(parseFileLog,
                            [filePath |-> filePath, hash |-> hash, parsed |-> TRUE,
                             exit |-> outcome.exit, result |-> outcome.result,
                             errs |-> outcome.errs])
    /\ UNCHANGED <<resolverVars, configVars, labelVars, importVars, sourceCode, scanVars,
                   tree, parseLog, sourceFiles>>

SourcePaths == {"A.scala", "B.scala", "C.scala"}

\* The checksum of the running binary.
ThisBinary == "bin1"

\* What an earlier run left in the cache file: nothing, or the result of
\* class Foo parsed under a path of its own, written by this binary or by
\* another one.
CacheFiles(p) ==
    {[exists |-> FALSE, GazelleBinaryChecksum |-> "", Cache |-> EmptyTable]}
    \cup {[exists |-> TRUE, GazelleBinaryChecksum |-> checksum,
           Cache |-> (sha256Hex(ClassFoo) :>
                        EncodeParseResult(Parse(p, "Old.scala", ClassFoo, ParseCtx(ClassFoo),
                                                CacheArena).result))]
          : checksum \in {ThisBinary, "bin0"}}

InitCache ==
    /\ sourceFiles \in [SourcePaths -> FileTexts]
    /\ parser \in {NewParser(FALSE, verbose, FALSE) : verbose \in BOOLEAN}
    /\ parsingCache \in {loadParsingCache(f, ThisBinary) : f \in CacheFiles(parser)}
    /\ parseFileLog = <<>>
    /\ tree = NoNode
    /\ parseLog = <<>>
    /\ sourceCode = <<>>
    /\ ImportIdle
    /\ ScanIdle
    /\ ConfigIdle
    /\ LabelIdle
    /\ ResolverIdle

NextCache == \E filePath \in SourcePaths \cup {"Missing.scala"} : ParseFile(filePath)

SpecCache == InitCache /\ [][NextCache]_vars

(***************************************************************************)
(* Properties of the parse cache.                                           *)
(***************************************************************************)

\* The entry under hash h is the result of a parse, without errors, of a
\* text whose hash is h.
IsErrorFreeParse(h, r) ==
    \E text \in FileTexts : \E path \in SourcePaths \cup {"Old.scala"} :
        LET outcome == Parse(parser, path, text, ParseCtx(text), CacheArena)
        IN /\ sha256Hex(text) = h
           /\ ~outcome.exit
           /\ Len(outcome.errs) = 0
           /\ outcome.result = r

\* What one ParseFile call, the last of the log, did to the cache.
ParseFileStep ==
    LET call == parseFileLog'[Len(parseFileLog')]
    IN /\ \A h \in DOMAIN parsingCache :
            h \in DOMAIN parsingCache' /\ parsingCache'[h] = parsingCache[h]
       /\ DOMAIN parsingCache' \subseteq DOMAIN parsingCache \cup {call.hash}
       /\ (~call.exit /\ call.hash \in DOMAIN parsingCache) =>
            /\ call.result = parsingCache[call.hash]
            /\ Len(call.errs) = 0
            /\ ~call.parsed
       /\ (~call.exit /\ call.hash \notin DOMAIN parsingCache) =>
            /\ call.parsed
            /\ call.hash \in DOMAIN parsingCache' <=> Len(call.errs) = 0
            /\ call.hash \in DOMAIN parsingCache' => parsingCache'[call.hash] = call.result

\* C24: a ParseFile call whose content hashes to a key of the cache returns
\* the cached result with no errors and does not run the underlying parser;
\* a result parsed afresh is stored under the hash exactly when the parse
\* returned no errors; no entry is ever replaced or removed; so every entry
\* is the result of an error-free parse of content with its hash.
C24_CacheContract ==
    /\ [][ParseFileStep]_cacheVars
    /\ [](\A h \in DOMAIN parsingCache : IsErrorFreeParse(h, parsingCache[h]))

\* Three calls: a parse with errors that is not stored, a parse without
\* errors that is, and a hit on the stored result.
C24_Witness ==
    \E i, j, k \in 1..Len(parseFileLog) :
        /\ parseFileLog[i].parsed /\ ~parseFileLog[i].exit
        /\ Len(parseFileLog[i].errs) > 0
        /\ parseFileLog[i].hash \notin DOMAIN parsingCache
        /\ j < k
        /\ parseFileLog[j].parsed /\ ~parseFileLog[j].exit
        /\ Len(parseFileLog[j].errs) = 0
        /\ ~parseFileLog[k].parsed /\ ~parseFileLog[k].exit
        /\ parseFileLog[k].hash = parseFileLog[j].hash
        /\ parseFileLog[k].result = parseFileLog[j].result

\* C29 as stated: the result ParseFile returns for path p has File = p.
C29_FileIsPath ==
    \A i \in 1..Len(parseFileLog) :
        ~parseFileLog[i].exit => parseFileLog[i].result.File = parseFileLog[i].filePath

(***************************************************************************)
(* The symbol walk over nested definitions: files whose root holds a few   *)
(* definitions with bodies, clauses, patterns and ERROR nodes in them.     *)
(***************************************************************************)
MaxWalkChildren == 2    \* most children of the root

NameField(name) == InField("name", Identifier(name))

TemplateBody(children) == InField("body", Node("template_body", "", <<>>, children))

Block(children) == Node("block", "", <<>>, children)

PrivateModifiers == Node("modifiers", "", <<>>, <<Leaf("access_modifier", PRIVATE)>>)

Definition(type, name, rest) == Node(type, "", <<>>, <<NameField(name)>> \o rest)

ObjectDefinition(name, rest) == Definition("object_definition", name, rest)

ValDefinition(pattern, value) ==
    Node("val_definition", "", <<>>, <<InField("pattern", pattern), InField("value", value)>>)

One == Leaf("integer_literal", <<"1">>)

\* object Out { object In { val x = a.b.C }; <ERROR: class Er> }
ObjectOut ==
    ObjectDefinition(<<"O", "u", "t">>,
        <<TemplateBody(
            <<ObjectDefinition(<<"I", "n">>,
                <<TemplateBody(<<ValDefinition(Identifier(<<"x">>), FieldABC)>>)>>),
              Node("ERROR", "", <<>>, <<Definition("class_definition", <<"E", "r">>, <<>>)>>)>>)>>)

\* class K(p: Int = { object P }) extends a.D { object Hid }
ClassK ==
    Definition("class_definition", <<"K">>,
        <<InField("class_parameters",
                  Node("class_parameters", "", <<>>,
                       <<Node("class_parameter", "", <<>>,
                              <<Block(<<ObjectDefinition(<<"P">>, <<>>)>>)>>)>>)),
          InField("extend",
                  Node("extends_clause", "", <<>>,
                       <<Leaf("stable_type_identifier", <<"a", ".", "D">>)>>)),
          TemplateBody(<<ObjectDefinition(<<"H", "i", "d">>, <<>>)>>)>>)

\* private object Sec { object Dp }
PrivateObjectSec ==
    Node("object_definition", "", <<>>,
         <<PrivateModifiers, NameField(<<"S", "e", "c">>),
           TemplateBody(<<ObjectDefinition(<<"D", "p">>, <<>>)>>)>>)

\* def f = { object Loc }
FunctionF ==
    Definition("function_definition", <<"f">>,
        <<InField("body", Block(<<ObjectDefinition(<<"L", "o", "c">>, <<>>)>>))>>)

TuplePatternAB == Leaf("tuple_pattern", <<"(", "a", ",", " ", "b", ")">>)

CaseClassPatternC == Leaf("case_class_pattern", <<"S", "o", "m", "e", "(", "c", ")">>)

\* object Vs { val (a, b) = 1; val Some(c) = 1; val v = a.b.C }
ObjectVs ==
    ObjectDefinition(<<"V", "s">>,
        <<TemplateBody(<<ValDefinition(TuplePatternAB, One),
                         ValDefinition(CaseClassPatternC, One),
                         ValDefinition(Identifier(<<"v">>), FieldABC)>>)>>)

\* class Cut and the block that is its body, inside an ERROR node
ErrorClassCut ==
    Node("ERROR", "", <<>>,
         <<Definition("class_definition", <<"C", "u", "t">>, <<>>),
           Block(<<ObjectDefinition(<<"B", "k">>, <<>>)>>)>>)

\* trait T, its body left to the next sibling
TraitT == Definition("trait_definition", <<"T">>, <<>>)

\* { val y = 1 }
BlockY == Block(<<ValDefinition(Identifier(<<"y">>), One)>>)

\* def g = { class L; { val z = 1 } }: the body of the local class is the
\* next sibling of the class inside the block of g
FunctionG ==
    Definition("function_definition", <<"g">>,
        <<InField("body",
                  Block(<<Definition("class_definition", <<"L">>, <<>>),
                          Block(<<ValDefinition(Identifier(<<"z">>), One)>>)>>))>>)

\* extension (s: String) ...: a definition that has no name field
ExtensionNoName ==
    Node("extension_definition", "", <<>>,
         <<InField("parameters", Node("parameters", "", <<>>, <<>>))>>)

WalkRootChildren ==
    {ObjectOut, ClassK, PrivateObjectSec, FunctionF, ObjectVs, ErrorClassCut, TraitT, BlockY,
     FunctionG, ExtensionNoName}

WalkTrees ==
    {CompilationUnit(children) : children \in SeqsUpTo(WalkRootChildren, MaxWalkChildren)}

\* One file, parsed once by a parser of its own.
InitWalk ==
    /\ sourceCode = ClassFoo
    /\ tree \in WalkTrees
    /\ parser \in {NewParser(FALSE, FALSE, dedupe) : dedupe \in BOOLEAN}
    /\ parseLog = <<>>
    /\ ImportIdle
    /\ ScanIdle
    /\ CacheIdle
    /\ ConfigIdle
    /\ LabelIdle
    /\ ResolverIdle

NextWalk == ParseFirst

SpecWalk == InitWalk /\ [][NextWalk]_vars

(***************************************************************************)
(* Properties of the symbol walk.                                           *)
(***************************************************************************)

\* The paths of all nodes under node, the node itself included.
RECURSIVE PathsUnder(_)
PathsUnder(node) ==
    {<<>>} \cup UNION {{<<i>> \o q : q \in PathsUnder(node.Children[i])} :
                        i \in 1..Len(node.Children)}

DefinitionPaths(root) == {q \in PathsUnder(root) : isDefinition(NodeAt(root, q).Type)}

VariablePaths(root) ==
    {q \in PathsUnder(root) : NodeAt(root, q).Type \in {"val_definition", "var_definition"}}

\* The namespaces a handler is tried with: nil, the top level, inside Out.
WalkNamespaces == {NilNamespace, Namespace(<<>>), Namespace(<<"O", "u", "t", ".">>)}

\* The name a definition or variable definition binds.
BoundName(node) ==
    IF isDefinition(node.Type) THEN ChildByFieldName(node, "name").Content
    ELSE ChildByFieldName(node, "pattern").Content

\* The part of a dotted symbol after its last dot, and the parts before each
\* of its dots.
LastName(sym) ==
    LET dots == {i \in 1..Len(sym) : sym[i] = "."}
    IN IF dots = {} THEN sym
       ELSE SubSeq(sym, (CHOOSE i \in dots : \A j \in dots : j <= i) + 1, Len(sym))

DottedPrefixes(sym) == {SubSeq(sym, 1, i - 1) : i \in {j \in 1..Len(sym) : sym[j] = "."}}

IsObject(node) == node.Type \in {"object_definition", "package_object"}

\* The nodes the node at path lies inside: its ancestors below the root and
\* the definitions that take one of them, a block, as their body.
Enclosers(root, path) ==
    LET above == {SubSeq(path, 1, k) : k \in 1..(Len(path) - 1)}
    IN above \cup {d \in DefinitionPaths(root) : BodyPath(root, d) \in above}

\* A node that closes the namespace for what lies inside it, as C21 lists
\* them.
ClosesNamespace(node) ==
    \/ node.Type \in {"class_definition", "trait_definition", "function_definition",
                      "class_parameters", "parameters", "extends_clause", "type_parameters"}
    \/ IsObject(node) /\ nodeHasAccessModifier(node)

\* The export rule of parseDefinition at one definition with a name, for one
\* namespace: the name is exported exactly when the namespace is not nil and
\* there is no access modifier; what the handler exports besides lies under
\* name + "." when the definition is an exported object, and is nothing
\* otherwise.
ExportRule(root, path, namespace) ==
    LET node == NodeAt(root, path)
        found == parseDefinition(root, path, namespace)
        sym == namespace.text \o BoundName(node)
        exported == ~namespace.isNil /\ ~nodeHasAccessModifier(node)
    IN (ChildByFieldName(node, "name") /= NoNode /\ ~found.crashed) =>
        /\ sym \in found.ExportedSymbols <=> exported
        /\ \A other \in found.ExportedSymbols \ {sym} :
            /\ exported /\ IsObject(node)
            /\ Len(other) > Len(sym) + 1
            /\ SubSeq(other, 1, Len(sym) + 1) = sym \o <<".">>

\* C21: the export rule holds at every definition of the file; every
\* exported symbol of a Parse that returned is a top-level name or has each
\* of its dotted prefixes exported as the name of an object without access
\* modifier; and the name of nothing defined inside a class, a trait, a
\* function, an object with an access modifier or a parameter, extends or
\* type-parameter clause is exported.
C21_ExportRule ==
    (Len(parseLog) = 1 /\ ~parseLog[1].exit) =>
        LET exported == parseLog[1].result.ExportedSymbols
        IN /\ \A d \in DefinitionPaths(tree) : \A ns \in WalkNamespaces :
                ExportRule(tree, d, ns)
           /\ \A sym \in exported : \A prefix \in DottedPrefixes(sym) :
                /\ prefix \in exported
                /\ \E d \in DefinitionPaths(tree) :
                    /\ IsObject(NodeAt(tree, d))
                    /\ ~nodeHasAccessModifier(NodeAt(tree, d))
                    /\ BoundName(NodeAt(tree, d)) = LastName(prefix)
           /\ \A d \in DefinitionPaths(tree) \cup VariablePaths(tree) :
                (\E e \in Enclosers(tree, d) : ClosesNamespace(NodeAt(tree, e))) =>
                    \A sym \in exported : LastName(sym) /= BoundName(NodeAt(tree, d))

\* Out with In, x and Er in it next to a class with an object in its
\* parameters and one in its body: Out, Out.In, Out.In.x, Out.Er and K are
\* exported, P and Hid are not.
C21_Witness ==
    /\ Len(parseLog) = 1
    /\ ~parseLog[1].exit
    /\ tree = CompilationUnit(<<ObjectOut, ClassK>>)
    /\ parseLog[1].result.ExportedSymbols =
            {<<"O", "u", "t">>, <<"O", "u", "t", ".", "I", "n">>,
             <<"O", "u", "t", ".", "I", "n", ".", "x">>,
             <<"O", "u", "t", ".", "E", "r">>, <<"K">>}

\* What parseVariableDefinition exports at one variable definition, for one
\* namespace, when only a simple name is exported.
SimpleNameExports(node, namespace) ==
    IF /\ ~namespace.isNil
       /\ ~nodeHasAccessModifier(node)
       /\ ChildByFieldName(node, "pattern").Type = "identifier"
    THEN {namespace.text \o ChildByFieldName(node, "pattern").Content}
    ELSE {}

\* C22 as stated: a val or var definition exports namespace + pattern text
\* only when it is visited with a namespace, has no access modifier and
\* binds a simple name, a destructuring pattern of any kind exports
\* nothing, and the used symbols are those of the initializer walked with a
\* nil namespace.
C22_OnlySimpleNames ==
    Len(parseLog) = 1 =>
        \A v \in VariablePaths(tree) : \A ns \in WalkNamespaces :
            LET found == parseVariableDefinition(tree, v, ns)
                value == recursivelyParseSymbols(tree, FieldPath(tree, v, "value"),
                                                 NilNamespace)
            IN /\ found.ExportedSymbols = SimpleNameExports(NodeAt(tree, v), ns)
               /\ found.FullyQualifiedNames = value.FullyQualifiedNames

\* The two parts of C22 that do not depend on the kind of the pattern: a
\* case-class pattern exports nothing, and the used symbols are those of the
\* initializer walked with a nil namespace, which exports nothing.
VariableDefinitionWalksValue ==
    Len(parseLog) = 1 =>
        \A v \in VariablePaths(tree) : \A ns \in WalkNamespaces :
            LET found == parseVariableDefinition(tree, v, ns)
                value == recursivelyParseSymbols(tree, FieldPath(tree, v, "value"),
                                                 NilNamespace)
            IN /\ found.FullyQualifiedNames = value.FullyQualifiedNames
               /\ value.ExportedSymbols = {}
               /\ ChildByFieldName(NodeAt(tree, v), "pattern").Type = "case_class_pattern"
                    => found.ExportedSymbols = {}

\* A Parse returned with the text of a tuple pattern among its exported
\* symbols.
TuplePatternExported ==
    /\ Len(parseLog) = 1
    /\ ~parseLog[1].exit
    /\ <<"V", "s", ".">> \o TuplePatternAB.Content \in parseLog[1].result.ExportedSymbols

\* The walk of Parse over the children of the root.
Walked(root) ==
    ParseRootChildren(root, NamedIndices(root), root.Type = "ERROR", EmptyParseResult)

\* C30 as stated: one Parse calls recursivelyParseSymbols at most once for
\* each node, so a parser with dedupe_parsing that has seen no node yet never
\* exits for a node scanned a second time.
C30_EachNodeOnce ==
    Len(parseLog) = 1 =>
        LET visited == Walked(tree).data.visited
        IN /\ \A j, k \in 1..Len(visited) : visited[j] = visited[k] => j = k
           /\ parseLog[1].exit => (Walked(tree).exit \/ Walked(tree).data.crashed)

\* A block that is the body of a definition is the next root child or a
\* child of the definition's body, and no node is walked twice there.
BlockSkippedAtRootAndInBody ==
    (Len(parseLog) = 1 /\ tree = CompilationUnit(<<TraitT, BlockY>>)) =>
        /\ ~parseLog[1].exit
        /\ Walked(tree).data.visited = <<<<1>>, <<2, 1>>, <<2, 1, 2>>>>
====
